---- MODULE Spec2Model ----
(***************************************************************************)
(* Mailbox chess board of Board_and_moves.py: FEN codec, pseudo-legal     *)
(* move generator, do_move / undo_move / is_legal and perft.               *)
(*                                                                         *)
(* Python values are modelled as follows.  A str is a sequence of          *)
(* one-character strings.  A Piece object is the record of its two         *)
(* mutable-relevant fields (piecetype, position); the same object is       *)
(* referenced from square_list and piece_list, so Piece.move updates both. *)
(* None is NoPiece in square_list, NoSquare for en_passant_square and      *)
(* NoLetter for the capture / promotion letters of a Move.                 *)
(***************************************************************************)
EXTENDS Integers, Sequences, FiniteSets, TLC

\* ---------------------------------------------------------------- bounds
MaxOps == 2
MaxDepth == 2

\* ------------------------------------------------------------- constants
PIECES == <<"P", "N", "B", "R", "Q", "K", "p", "n", "b", "r", "q", "k">>

PieceLetters == {PIECES[k] : k \in 1..12}

LowerLetters == {"p", "n", "b", "r", "q", "k"}

Upper(c) ==
    CASE c = "p" -> "P" [] c = "n" -> "N" [] c = "b" -> "B"
      [] c = "r" -> "R" [] c = "q" -> "Q" [] c = "k" -> "K"
      [] OTHER -> c

FileLetters == <<"a", "b", "c", "d", "e", "f", "g", "h">>

DigitChars == <<"0", "1", "2", "3", "4", "5", "6", "7", "8", "9">>

\* NUM_TO_SQUARE[n]: file letter followed by rank digit
NUM_TO_SQUARE(n) == <<FileLetters[(n % 8) + 1], DigitChars[(n \div 8) + 2]>>

NoSquare == -1

\* SQUARE_TO_NUM[s]: inverse of NUM_TO_SQUARE, '-' maps to None
SQUARE_TO_NUM(s) ==
    IF s = <<"-">> THEN NoSquare
    ELSE CHOOSE n \in 0..63 : NUM_TO_SQUARE(n) = s

NoLetter == "None"

NoPiece == [piecetype |-> "None", position |-> -1]

\* ----------------------------------------------------------------- Piece
Piece(piecetype, position) == [piecetype |-> piecetype, position |-> position]

\* Piece.color: False = white, True = black
Color(p) == p.piecetype \in LowerLetters

is_type(p, letters) == p.piecetype \in letters

\* ------------------------------------------------------------------ Move
Move(frm, to, moving_piece, capture, promotion, is_castle, is_enpassant) ==
    [frm |-> frm, to |-> to, moving_piece |-> moving_piece,
     moving_piece_FEN |-> Upper(moving_piece.piecetype),
     capture |-> capture, promotion |-> promotion,
     is_castle |-> is_castle, is_enpassant |-> is_enpassant]

Quiet(frm, to, mp) == Move(frm, to, mp, NoLetter, NoLetter, FALSE, FALSE)

Capture(frm, to, mp, cap) == Move(frm, to, mp, cap, NoLetter, FALSE, FALSE)

\* Move.__str__
MoveStr(mv) ==
    NUM_TO_SQUARE(mv.frm)
      \o (IF mv.capture # NoLetter THEN <<"x">> ELSE <<"-">>)
      \o NUM_TO_SQUARE(mv.to)
      \o (IF mv.promotion # NoLetter THEN <<"=", Upper(mv.promotion)>> ELSE <<>>)

\* ------------------------------------------------------- list primitives
InList(x, s) == \E k \in 1..Len(s) : s[k] = x

IndexOf(x, s) == CHOOSE k \in 1..Len(s) : s[k] = x /\ \A j \in 1..(k - 1) : s[j] # x

\* list.remove(x): drops the first element equal to x (every caller has
\* established that x is in the list; a list without x is left as it is)
ListRemove(s, x) ==
    IF ~InList(x, s) THEN s
    ELSE LET k == IndexOf(x, s)
         IN [j \in 1..(Len(s) - 1) |-> IF j < k THEN s[j] ELSE s[j + 1]]

\* Piece.move seen from piece_list: the moved object keeps its slot
ListMovePiece(s, old, new) ==
    IF InList(old, s) THEN [s EXCEPT ![IndexOf(old, s)] = new] ELSE s

\* the concatenation of the lists of ss, in order
RECURSIVE Flatten(_)
Flatten(ss) ==
    IF Len(ss) = 0 THEN <<>>
    ELSE IF Len(ss) = 1 THEN ss[1]
    ELSE LET h == Len(ss) \div 2
         IN Flatten(SubSeq(ss, 1, h)) \o Flatten(SubSeq(ss, h + 1, Len(ss)))

\* ------------------------------------------------------------- generator
Sgn(clr) == IF clr = 0 THEN 1 ELSE -1

Clr(b) == IF b.side_to_move THEN 1 ELSE 0

Proms(clr) == <<<<"Q", "R", "B", "N">>, <<"q", "r", "b", "n">>>>[clr + 1]

\* variant: a capture onto the last rank is emitted once, without promotion
PawnCapture_NoPromotion(b, mp, d) ==
    LET clr == Clr(b)
        i   == mp.position
        f   == i % 8
        t   == i + d - 16 * clr
        fileOk == IF d = 9 THEN f < 7 ELSE f > 0
        sq  == b.square_list
    IN  (IF fileOk /\ sq[t] # NoPiece /\ Color(sq[t]) # b.side_to_move
         THEN <<Capture(i, t, mp, sq[t].piecetype)>>
         ELSE <<>>)
        \o
        (IF fileOk /\ b.en_passant_square = t
         THEN <<Move(i, t, mp, <<"p", "P">>[clr + 1], NoLetter, FALSE, TRUE)>>
         ELSE <<>>)

\* one pawn capture direction (d = 9 right, d = 7 left), with its en passant twin
PawnCapture(b, mp, d) ==
    LET clr == Clr(b)
        i   == mp.position
        r   == i \div 8
        f   == i % 8
        t   == i + d - 16 * clr
        fileOk == IF d = 9 THEN f < 7 ELSE f > 0
        sq  == b.square_list
    IN  (IF fileOk /\ sq[t] # NoPiece /\ Color(sq[t]) # b.side_to_move
         THEN IF r = 6 - 5 * clr
              THEN [k \in 1..4 |->
                      Move(i, t, mp, sq[t].piecetype, Proms(clr)[k], FALSE, FALSE)]
              ELSE <<Capture(i, t, mp, sq[t].piecetype)>>
         ELSE <<>>)
        \o
        (IF fileOk /\ b.en_passant_square = t
         THEN <<Move(i, t, mp, <<"p", "P">>[clr + 1], NoLetter, FALSE, TRUE)>>
         ELSE <<>>)

PawnMoves(b, mp) ==
    LET clr == Clr(b)
        i   == mp.position
        r   == i \div 8
        fwd == 8 * Sgn(clr)
        sq  == b.square_list
    IN  (IF sq[i + fwd] = NoPiece
         THEN IF r = 6 - 5 * clr
              THEN [k \in 1..4 |->
                      Move(i, i + fwd, mp, NoLetter, Proms(clr)[k], FALSE, FALSE)]
              ELSE <<Quiet(i, i + fwd, mp)>>
                   \o (IF r = 1 + 5 * clr /\ sq[i + 2 * fwd] = NoPiece
                       THEN <<Quiet(i, i + 2 * fwd, mp)>> ELSE <<>>)
         ELSE <<>>)
        \o PawnCapture(b, mp, 9)
        \o PawnCapture(b, mp, 7)

\* one slider ray: step (df, dr) per offset, starting at offset k
RECURSIVE Ray(_, _, _, _, _)
Ray(b, mp, df, dr, k) ==
    LET i  == mp.position
        nf == (i % 8) + df * k
        nr == (i \div 8) + dr * k
        t  == i + (df + 8 * dr) * k
        sq == b.square_list
    IN  IF nf < 0 \/ nf >= 8 \/ nr < 0 \/ nr >= 8 THEN <<>>
        ELSE IF sq[t] = NoPiece THEN <<Quiet(i, t, mp)>> \o Ray(b, mp, df, dr, k + 1)
        ELSE IF Color(sq[t]) # b.side_to_move
             THEN <<Capture(i, t, mp, sq[t].piecetype)>>
        ELSE <<>>

\* right, left, up, down
RookMoves(b, mp) ==
    Ray(b, mp, 1, 0, 1) \o Ray(b, mp, -1, 0, 1) \o Ray(b, mp, 0, 1, 1) \o Ray(b, mp, 0, -1, 1)

\* upright, upleft, downright, downleft
BishopMoves(b, mp) ==
    Ray(b, mp, 1, 1, 1) \o Ray(b, mp, -1, 1, 1) \o Ray(b, mp, 1, -1, 1) \o Ray(b, mp, -1, -1, 1)

\* the offsets left after the edge gates, in the iteration order of the set
KingOffsets(r, f) ==
    LET rm == (IF r = 0 THEN {-9, -8, -7} ELSE IF r = 7 THEN {7, 8, 9} ELSE {})
              \cup (IF f = 0 THEN {7, -1, -9} ELSE IF f = 7 THEN {9, 1, -7} ELSE {})
    IN SelectSeq(<<1, 7, 8, 9, -9, -8, -7, -1>>, LAMBDA o : o \notin rm)

KnightOffsets(r, f) ==
    LET rm == (IF r = 0 THEN {-6, -15, -17, -10} ELSE IF r = 1 THEN {-15, -17}
               ELSE IF r = 7 THEN {6, 15, 17, 10} ELSE IF r = 6 THEN {15, 17} ELSE {})
              \cup (IF f = 0 THEN {-17, -10, 6, 15} ELSE IF f = 1 THEN {-10, 6}
                    ELSE IF f = 7 THEN {17, 10, -6, -15} ELSE IF f = 6 THEN {10, -6} ELSE {})
    IN SelectSeq(<<6, 10, -17, 15, 17, -15, -10, -6>>, LAMBDA o : o \notin rm)

\* variant: a step onto any occupied square is a capture, the colour is not looked at
StepMoves_OwnTaken(b, mp, offsets) ==
    LET i  == mp.position
        sq == b.square_list
    IN Flatten([k \in 1..Len(offsets) |->
          LET t == i + offsets[k]
          IN IF sq[t] # NoPiece
             THEN <<Capture(i, t, mp, sq[t].piecetype)>>
             ELSE <<Quiet(i, t, mp)>>])

\* the loop shared by the king and the knight: step on empty or opposing squares
StepMoves(b, mp, offsets) ==
    LET i  == mp.position
        sq == b.square_list
    IN Flatten([k \in 1..Len(offsets) |->
          LET t == i + offsets[k]
          IN IF sq[t] # NoPiece
             THEN IF Color(sq[t]) # b.side_to_move
                  THEN <<Capture(i, t, mp, sq[t].piecetype)>> ELSE <<>>
             ELSE <<Quiet(i, t, mp)>>])

\* variant: the long castle looks at the c and d squares only
CastlingMoves_LongSkipsB(b, mp) ==
    LET clr  == Clr(b)
        base == 7 * 8 * clr
        sq   == b.square_list
    IN  (IF b.castling_rights[2 * clr] /\ sq[base + 5] = NoPiece /\ sq[base + 6] = NoPiece
         THEN <<Move(base + 4, base + 6, mp, NoLetter, NoLetter, TRUE, FALSE)>> ELSE <<>>)
        \o
        (IF b.castling_rights[2 * clr + 1] /\ \A x \in {2, 3} : sq[base + x] = NoPiece
         THEN <<Move(base + 4, base + 2, mp, NoLetter, NoLetter, TRUE, FALSE)>> ELSE <<>>)

CastlingMoves(b, mp) ==
    LET clr  == Clr(b)
        base == 7 * 8 * clr
        sq   == b.square_list
    IN  (IF b.castling_rights[2 * clr] /\ sq[base + 5] = NoPiece /\ sq[base + 6] = NoPiece
         THEN <<Move(base + 4, base + 6, mp, NoLetter, NoLetter, TRUE, FALSE)>> ELSE <<>>)
        \o
        (IF b.castling_rights[2 * clr + 1] /\ \A x \in {1, 2, 3} : sq[base + x] = NoPiece
         THEN <<Move(base + 4, base + 2, mp, NoLetter, NoLetter, TRUE, FALSE)>> ELSE <<>>)

PieceMoves(b, mp) ==
    LET clr == Clr(b)
        pt  == mp.piecetype
        r   == mp.position \div 8
        f   == mp.position % 8
    IN  (IF pt = <<"P", "p">>[clr + 1] THEN PawnMoves(b, mp) ELSE <<>>)
        \o (IF pt \in {<<"R", "r">>[clr + 1], <<"Q", "q">>[clr + 1]}
            THEN RookMoves(b, mp) ELSE <<>>)
        \o (IF pt \in {<<"B", "b">>[clr + 1], <<"Q", "q">>[clr + 1]}
            THEN BishopMoves(b, mp) ELSE <<>>)
        \o (IF pt = <<"K", "k">>[clr + 1]
            THEN StepMoves(b, mp, KingOffsets(r, f)) \o CastlingMoves(b, mp) ELSE <<>>)
        \o (IF pt = <<"N", "n">>[clr + 1]
            THEN StepMoves(b, mp, KnightOffsets(r, f)) ELSE <<>>)

generate_pseudolegal_moves(b) ==
    Flatten([k \in 1..Len(b.piece_list) |-> PieceMoves(b, b.piece_list[k])])

\* ------------------------------------------------------------- FEN codec
\* str(n) for n >= 0
RECURSIVE IntToStr(_)
IntToStr(n) ==
    IF n < 10 THEN <<DigitChars[n + 1]>>
    ELSE IntToStr(n \div 10) \o <<DigitChars[(n % 10) + 1]>>

DigitVal(c) == (CHOOSE k \in 1..10 : DigitChars[k] = c) - 1

IsDigit(c) == \E k \in 1..10 : DigitChars[k] = c

\* int(s) for a string of decimal digits
RECURSIVE StrToInt(_)
StrToInt(s) ==
    IF Len(s) = 1 THEN DigitVal(s[1])
    ELSE 10 * StrToInt(SubSeq(s, 1, Len(s) - 1)) + DigitVal(s[Len(s)])

\* s.split(sep): the pieces between separators, empty pieces kept
SplitOn(s, sep) ==
    LET at == {k \in 1..Len(s) : s[k] = sep}
        n  == Cardinality(at)
        nth(j) == CHOOSE k \in at : Cardinality({x \in at : x < k}) = j - 1
    IN [j \in 1..(n + 1) |->
          SubSeq(s, IF j = 1 THEN 1 ELSE nth(j - 1) + 1,
                    IF j = n + 1 THEN Len(s) ELSE nth(j) - 1)]

\* s.split(): split on runs of blanks, empty pieces dropped
SplitBlank(s) == SelectSeq(SplitOn(s, " "), LAMBDA w : w # <<>>)

\* number_of_empty when the loop of get_fen reaches file f of rank r
EmptyRun(sq, r, f) ==
    LET occ == {g \in 0..(f - 1) : sq[r * 8 + g] # NoPiece}
    IN IF occ = {} THEN f
       ELSE f - 1 - (CHOOSE m \in occ : \A g \in occ : g <= m)

\* what get_fen writes for rank r: at each piece the run of empty squares
\* before it (if any) and its letter, at the end of the rank the last run
FenRank(sq, r) ==
    Flatten([k \in 1..9 |->
        IF k < 9 /\ sq[r * 8 + k - 1] = NoPiece THEN <<>>
        ELSE (IF EmptyRun(sq, r, k - 1) > 0 THEN IntToStr(EmptyRun(sq, r, k - 1)) ELSE <<>>)
               \o (IF k < 9 THEN <<sq[r * 8 + k - 1].piecetype>> ELSE <<>>)])

\* variant: the ranks are written from rank 1 up to rank 8
FenPlacement_RanksUp(sq) == Flatten([k \in 1..8 |-> FenRank(sq, k - 1) \o <<"/">>])

\* ranks 8 down to 1, each followed by "/"
FenPlacement(sq) == Flatten([k \in 1..8 |-> FenRank(sq, 8 - k) \o <<"/">>])

CastleLetters == <<"K", "Q", "k", "q">>

get_fen(b) ==
    LET res0   == FenPlacement(b.square_list)
        res1   == SubSeq(res0, 1, Len(res0) - 1)
        castle == Flatten([k \in 1..4 |->
                     IF b.castling_rights[k - 1] THEN <<CastleLetters[k]>> ELSE <<>>])
    IN  res1
        \o (IF b.side_to_move THEN <<" ", "b", " ">> ELSE <<" ", "w", " ">>)
        \o (IF Len(castle) = 0 THEN <<"-">> ELSE castle)
        \o (IF b.en_passant_square = NoSquare THEN <<" ", "-">>
            ELSE <<" ">> \o NUM_TO_SQUARE(b.en_passant_square))
        \o <<" ">> \o IntToStr(b.half_move_count)
        \o <<" ">> \o IntToStr(b.full_move_count)

\* BoardRep.__init__
EmptyBoard ==
    [side_to_move |-> FALSE,
     castling_rights |-> [i \in 0..3 |-> TRUE],
     en_passant_square |-> NoSquare,
     half_move_count |-> 0,
     full_move_count |-> 1,
     piece_list |-> <<>>,
     piece_count |-> [p \in PieceLetters |-> 0],
     square_list |-> [s \in 0..63 |-> NoPiece],
     pseudolegal_moves |-> <<>>,
     move_sequence |-> <<>>,
     fen_sequence |-> <<>>]

\* the placement loop of read_fen over the characters of one rank
RECURSIVE PlaceRank(_, _, _, _)
\* variant: the piece is put on its square and the count is left alone
PlaceRank_NoCount(b, rank, r, f) ==
    IF rank = <<>> THEN b
    ELSE LET piece == Head(rank)
         IN IF piece \in PieceLetters
            THEN LET pos      == r * 8 + f
                     newpiece == Piece(piece, pos)
                 IN PlaceRank([b EXCEPT !.square_list[pos] = newpiece,
                                        !.piece_list = Append(@, newpiece)],
                              Tail(rank), r, f + 1)
            ELSE PlaceRank(b, Tail(rank), r, f + DigitVal(piece))

PlaceRank(b, rank, r, f) ==
    IF rank = <<>> THEN b
    ELSE LET piece == Head(rank)
         IN IF piece \in PieceLetters
            THEN LET pos      == r * 8 + f
                     newpiece == Piece(piece, pos)
                 IN PlaceRank([b EXCEPT !.square_list[pos] = newpiece,
                                        !.piece_list = Append(@, newpiece),
                                        !.piece_count[piece] = @ + 1],
                              Tail(rank), r, f + 1)
            ELSE PlaceRank(b, Tail(rank), r, f + DigitVal(piece))

RECURSIVE PlaceRanks(_, _, _)
PlaceRanks(b, ranks, r) ==
    IF ranks = <<>> THEN b
    ELSE PlaceRanks(PlaceRank(b, Head(ranks), r, 0), Tail(ranks), r - 1)

read_fen(fen) ==
    LET lines == SplitBlank(fen)
        ranks == SplitOn(lines[1], "/")
        b1 == PlaceRanks(EmptyBoard, ranks, 7)
        b2 == [b1 EXCEPT
                 !.side_to_move = (lines[2] = <<"b">>),
                 !.castling_rights = [i \in 0..3 |-> InList(CastleLetters[i + 1], lines[3])],
                 !.en_passant_square = SQUARE_TO_NUM(lines[4]),
                 !.half_move_count = StrToInt(lines[5]),
                 !.full_move_count = StrToInt(lines[6])]
    IN [b2 EXCEPT !.pseudolegal_moves = generate_pseudolegal_moves(b2),
                  !.fen_sequence = Append(@, fen)]

\* ------------------------------------------------- pseudo-legal primitive
\* An AttributeError on a None square and the exit() of the except branch
\* end the run; err names the outcome and the board is then not observed.
NoErr == ""

\* the exception the placement loop of read_fen raises on one rank, if any:
\* int(piece) on a character that is no digit, or a square index past 63
RECURSIVE PlaceRankRaises(_, _, _)
PlaceRankRaises(rank, r, f) ==
    IF rank = <<>> THEN NoErr
    ELSE IF Head(rank) \in PieceLetters
    THEN IF r * 8 + f > 63 THEN "IndexError"
         ELSE PlaceRankRaises(Tail(rank), r, f + 1)
    ELSE IF ~IsDigit(Head(rank)) THEN "ValueError"
    ELSE PlaceRankRaises(Tail(rank), r, f + DigitVal(Head(rank)))

\* the exception of the first rank that raises one (at most 8 ranks)
PlacementRaises(ranks) ==
    LET bad == {k \in 1..Len(ranks) : PlaceRankRaises(ranks[k], 8 - k, 0) # NoErr}
    IN IF bad = {} THEN NoErr
       ELSE PlaceRankRaises(ranks[CHOOSE k \in bad : \A j \in bad : k <= j],
                            8 - (CHOOSE k \in bad : \A j \in bad : k <= j), 0)

\* int(s) raises ValueError unless s is a string of decimal digits
IntRaises(s) == IF \A k \in 1..Len(s) : IsDigit(s[k]) THEN NoErr ELSE "ValueError"

\* SQUARE_TO_NUM[s] raises KeyError unless s is a square name or "-"
SquareRaises(s) ==
    IF s = <<"-">> \/ \E n \in 0..63 : NUM_TO_SQUARE(n) = s THEN NoErr ELSE "KeyError"

\* the exception read_fen raises on the words of a FEN, in the order the code
\* reads them; read_fen itself tests nothing
FieldsRaise(lines) ==
    IF Len(lines) = 0 THEN "IndexError"
    ELSE IF PlacementRaises(SplitOn(lines[1], "/")) # NoErr
    THEN PlacementRaises(SplitOn(lines[1], "/"))
    ELSE IF Len(lines) < 4 THEN "IndexError"
    ELSE IF SquareRaises(lines[4]) # NoErr THEN "KeyError"
    ELSE IF Len(lines) < 5 THEN "IndexError"
    ELSE IF IntRaises(lines[5]) # NoErr THEN "ValueError"
    ELSE IF Len(lines) < 6 THEN "IndexError"
    ELSE IntRaises(lines[6])

read_fen_raises(fen) == FieldsRaise(SplitBlank(fen))

do_pseudolegal_move(b, mv) ==
    LET sq0       == b.square_list
        frm_piece == sq0[mv.frm]
        sq1       == [sq0 EXCEPT ![mv.frm] = NoPiece]
        hasCap    == mv.capture # NoLetter
        capsq     == IF mv.is_enpassant THEN mv.to - 8 * Sgn(Clr(b)) ELSE mv.to
        captured_piece == IF hasCap THEN sq1[capsq] ELSE NoPiece
        rooksq    == IF mv.to - mv.frm = 2 THEN mv.to + 1 ELSE mv.to - 2
        rooknew   == IF mv.to - mv.frm = 2 THEN mv.to - 1 ELSE mv.to + 1
        isCastle  == mv.is_castle /\ (mv.to - mv.frm = 2 \/ mv.to - mv.frm = -2)
    IN  IF ~InList(mv, b.pseudolegal_moves)
        THEN [board |-> b, frm_piece |-> NoPiece, captured_piece |-> NoPiece,
              err |-> "AssertionError"]
        ELSE IF hasCap /\ captured_piece = NoPiece
        THEN [board |-> b, frm_piece |-> NoPiece, captured_piece |-> NoPiece,
              err |-> "AttributeError"]
        ELSE IF hasCap /\ ~InList(captured_piece, b.piece_list)
        THEN [board |-> b, frm_piece |-> NoPiece, captured_piece |-> NoPiece,
              err |-> "ValueError"]
        ELSE IF frm_piece = NoPiece
        THEN [board |-> b, frm_piece |-> NoPiece, captured_piece |-> NoPiece,
              err |-> "exit"]
        ELSE
        LET sq2   == IF hasCap /\ mv.is_enpassant THEN [sq1 EXCEPT ![capsq] = NoPiece] ELSE sq1
            cnt1  == IF hasCap
                     THEN [b.piece_count EXCEPT ![captured_piece.piecetype] = @ - 1]
                     ELSE b.piece_count
            pl1   == IF hasCap THEN ListRemove(b.piece_list, captured_piece) ELSE b.piece_list
            moved == Piece(frm_piece.piecetype, mv.to)
            sq3   == [sq2 EXCEPT ![mv.to] = moved]
            pl2   == ListMovePiece(pl1, frm_piece, moved)
            rook  == sq3[rooksq]
        IN  IF isCastle /\ rook = NoPiece
            THEN [board |-> b, frm_piece |-> NoPiece, captured_piece |-> NoPiece,
                  err |-> "AttributeError"]
            ELSE
            LET rookmoved == Piece(rook.piecetype, rooknew)
                sq4 == IF isCastle
                       THEN [sq3 EXCEPT ![rooksq] = NoPiece, ![rooknew] = rookmoved]
                       ELSE sq3
                pl3 == IF isCastle THEN ListMovePiece(pl2, rook, rookmoved) ELSE pl2
                hasProm == mv.promotion # NoLetter
                promotedPiece == Piece(mv.promotion, mv.to)
                sq5  == IF hasProm THEN [sq4 EXCEPT ![mv.to] = promotedPiece] ELSE sq4
                cnt2 == IF hasProm
                        THEN [[cnt1 EXCEPT ![frm_piece.piecetype] = @ - 1]
                                    EXCEPT ![promotedPiece.piecetype] = @ + 1]
                        ELSE cnt1
                pl4  == IF hasProm THEN Append(ListRemove(pl3, moved), promotedPiece) ELSE pl3
            IN [board |-> [b EXCEPT !.square_list = sq5, !.piece_count = cnt2,
                                    !.piece_list = pl4],
                frm_piece |-> moved, captured_piece |-> captured_piece, err |-> NoErr]

\* variant: the piece put back after a capture is not appended to piece_list
undo_pseudolegal_move_NotListed(b, mv) ==
    LET side    == Clr(b)
        hasProm == mv.promotion # NoLetter
        promotedPiece == b.square_list[mv.to]
        oldPawn == Piece(<<"P", "p">>[side + 1], mv.to)
        sq1  == IF hasProm THEN [b.square_list EXCEPT ![mv.to] = oldPawn] ELSE b.square_list
        cnt1 == IF hasProm
                THEN [[b.piece_count EXCEPT ![promotedPiece.piecetype] = @ - 1]
                                     EXCEPT ![oldPawn.piecetype] = @ + 1]
                ELSE b.piece_count
        pl1  == IF hasProm THEN Append(ListRemove(b.piece_list, promotedPiece), oldPawn)
                ELSE b.piece_list
        isCastle == mv.is_castle /\ (mv.to - mv.frm = 2 \/ mv.to - mv.frm = -2)
        rooksq   == IF mv.to - mv.frm = 2 THEN mv.to - 1 ELSE mv.to + 1
        rookold  == IF mv.to - mv.frm = 2 THEN mv.to + 1 ELSE mv.to - 2
        rook     == sq1[rooksq]
        rookback == Piece(rook.piecetype, rookold)
        sq2  == IF isCastle THEN [sq1 EXCEPT ![rooksq] = NoPiece, ![rookold] = rookback] ELSE sq1
        pl2  == IF isCastle THEN ListMovePiece(pl1, rook, rookback) ELSE pl1
        to_piece == sq2[mv.to]
        back == Piece(to_piece.piecetype, mv.frm)
        sq3  == [sq2 EXCEPT ![mv.to] = NoPiece, ![mv.frm] = back]
        pl3  == ListMovePiece(pl2, to_piece, back)
        hasCap == mv.capture # NoLetter
        restored_piece == IF ~mv.is_enpassant THEN Piece(mv.capture, mv.to)
                          ELSE Piece(<<"p", "P">>[side + 1], mv.to - 8 * Sgn(side))
        sq4  == IF hasCap THEN [sq3 EXCEPT ![restored_piece.position] = restored_piece] ELSE sq3
        cnt2 == IF hasCap THEN [cnt1 EXCEPT ![restored_piece.piecetype] = @ + 1] ELSE cnt1
        pl4  == pl3
    IN [b EXCEPT !.square_list = sq4, !.piece_count = cnt2, !.piece_list = pl4]

undo_pseudolegal_move(b, mv) ==
    LET side    == Clr(b)
        hasProm == mv.promotion # NoLetter
        promotedPiece == b.square_list[mv.to]
        oldPawn == Piece(<<"P", "p">>[side + 1], mv.to)
        sq1  == IF hasProm THEN [b.square_list EXCEPT ![mv.to] = oldPawn] ELSE b.square_list
        cnt1 == IF hasProm
                THEN [[b.piece_count EXCEPT ![promotedPiece.piecetype] = @ - 1]
                                     EXCEPT ![oldPawn.piecetype] = @ + 1]
                ELSE b.piece_count
        pl1  == IF hasProm THEN Append(ListRemove(b.piece_list, promotedPiece), oldPawn)
                ELSE b.piece_list
        isCastle == mv.is_castle /\ (mv.to - mv.frm = 2 \/ mv.to - mv.frm = -2)
        rooksq   == IF mv.to - mv.frm = 2 THEN mv.to - 1 ELSE mv.to + 1
        rookold  == IF mv.to - mv.frm = 2 THEN mv.to + 1 ELSE mv.to - 2
        rook     == sq1[rooksq]
        rookback == Piece(rook.piecetype, rookold)
        sq2  == IF isCastle THEN [sq1 EXCEPT ![rooksq] = NoPiece, ![rookold] = rookback] ELSE sq1
        pl2  == IF isCastle THEN ListMovePiece(pl1, rook, rookback) ELSE pl1
        to_piece == sq2[mv.to]
        back == Piece(to_piece.piecetype, mv.frm)
        sq3  == [sq2 EXCEPT ![mv.to] = NoPiece, ![mv.frm] = back]
        pl3  == ListMovePiece(pl2, to_piece, back)
        hasCap == mv.capture # NoLetter
        restored_piece == IF ~mv.is_enpassant THEN Piece(mv.capture, mv.to)
                          ELSE Piece(<<"p", "P">>[side + 1], mv.to - 8 * Sgn(side))
        sq4  == IF hasCap THEN [sq3 EXCEPT ![restored_piece.position] = restored_piece] ELSE sq3
        cnt2 == IF hasCap THEN [cnt1 EXCEPT ![restored_piece.piecetype] = @ + 1] ELSE cnt1
        pl4  == IF hasCap THEN Append(pl3, restored_piece) ELSE pl3
    IN [b EXCEPT !.square_list = sq4, !.piece_count = cnt2, !.piece_list = pl4]

\* ----------------------------------------------------- do_move / undo_move
\* The value do_move returns: False, True, or (update_movelist = False) the
\* list of the opponent's pseudo-legal moves.
RetFalse == [kind |-> "bool", bool |-> FALSE, list |-> <<>>]

RetTrue == [kind |-> "bool", bool |-> TRUE, list |-> <<>>]

RetList(l) == [kind |-> "list", bool |-> FALSE, list |-> l]

\* Python truth value of a returned value
Truthy(ret) == IF ret.kind = "list" THEN Len(ret.list) > 0 ELSE ret.bool

\* variant: only a white double push sets the square
NewEnPassant_WhiteOnly(moved_piece, mv) ==
    IF moved_piece.piecetype = "P" /\ mv.to - mv.frm = 16 THEN mv.to - 8
    ELSE NoSquare

\* the en passant square set right after the pseudo-legal move
NewEnPassant(moved_piece, mv) ==
    IF moved_piece.piecetype = "P" /\ mv.to - mv.frm = 16 THEN mv.to - 8
    ELSE IF moved_piece.piecetype = "p" /\ mv.to - mv.frm = -16 THEN mv.to + 8
    ELSE NoSquare

\* variant: the long castle is not tested
CastleThroughCheck_ShortOnly(mv, next_move_list) ==
    mv.is_castle /\ mv.to - mv.frm = 2
      /\ \E k \in 1..Len(next_move_list) : next_move_list[k].to = mv.to - 1

\* variant: the long castle tests the square beyond the king instead of the one crossed
CastleThroughCheck_WrongLongSquare(mv, next_move_list) ==
    LET c2 == mv.to - mv.frm = 2
              /\ \E k \in 1..Len(next_move_list) : next_move_list[k].to = mv.to - 1
        c3 == mv.to - mv.frm = -2
              /\ \E k \in 1..Len(next_move_list) : next_move_list[k].to = mv.to - 1
    IN mv.is_castle /\ (c2 \/ c3)

\* "can not castle through check": a reply lands on the square the king crossed
CastleThroughCheck(mv, next_move_list) ==
    LET c2 == mv.to - mv.frm = 2
              /\ \E k \in 1..Len(next_move_list) : next_move_list[k].to = mv.to - 1
        c3 == mv.to - mv.frm = -2
              /\ \E k \in 1..Len(next_move_list) : next_move_list[k].to = mv.to + 1
    IN mv.is_castle /\ (c2 \/ c3)

\* variant: the king letter is indexed as if side_to_move had not been flipped yet
KingCapturable_NotFlipped(side_to_move, next_move_list) ==
    \E k \in 1..Len(next_move_list) :
        next_move_list[k].capture = (IF side_to_move THEN "k" ELSE "K")

\* a reply captures the king of the side that just moved (side_to_move already flipped)
KingCapturable(side_to_move, next_move_list) ==
    \E k \in 1..Len(next_move_list) :
        next_move_list[k].capture = (IF side_to_move THEN "K" ELSE "k")

\* variant: a capture removes no right
UpdateCastlingRights_CaptureIgnored(rights, moved_piece, captured_piece, mv) ==
    IF \E i \in 0..3 : rights[i]
    THEN LET pt == moved_piece.piecetype
             off(i) ==
                \/ (pt = "K" /\ i \in {0, 1})
                \/ (pt = "k" /\ i \in {2, 3})
                \/ (pt = "R" /\ mv.frm = 7 /\ i = 0)
                \/ (pt = "R" /\ mv.frm # 7 /\ mv.frm = 0 /\ i = 1)
                \/ (pt = "r" /\ mv.frm = 63 /\ i = 2)
                \/ (pt = "r" /\ mv.frm # 63 /\ mv.frm = 56 /\ i = 3)
         IN [i \in 0..3 |-> rights[i] /\ ~off(i)]
    ELSE rights

\* variant: a rook captured on a corner takes both rights of its side with it
UpdateCastlingRights_CaptureClearsSide(rights, moved_piece, captured_piece, mv) ==
    IF \E i \in 0..3 : rights[i]
    THEN LET pt == moved_piece.piecetype
             cap == mv.capture # NoLetter
             off(i) ==
                \/ (pt = "K" /\ i \in {0, 1})
                \/ (pt = "k" /\ i \in {2, 3})
                \/ (pt = "R" /\ mv.frm = 7 /\ i = 0)
                \/ (pt = "R" /\ mv.frm # 7 /\ mv.frm = 0 /\ i = 1)
                \/ (pt = "r" /\ mv.frm = 63 /\ i = 2)
                \/ (pt = "r" /\ mv.frm # 63 /\ mv.frm = 56 /\ i = 3)
                \/ (cap /\ is_type(captured_piece, {"K"}) /\ i \in {0, 1})
                \/ (cap /\ is_type(captured_piece, {"k"}) /\ i \in {2, 3})
                \/ (cap /\ is_type(captured_piece, {"R", "r"})
                        /\ mv.to \in {7, 0, 63, 56}
                        /\ (mv.to < 8) = (i <= 1))
         IN [i \in 0..3 |-> rights[i] /\ ~off(i)]
    ELSE rights

\* variant: only a move of the king removes rights
UpdateCastlingRights_KingOnly(rights, moved_piece, captured_piece, mv) ==
    IF \E i \in 0..3 : rights[i]
    THEN [i \in 0..3 |->
            rights[i] /\ ~(moved_piece.piecetype = (IF i <= 1 THEN "K" ELSE "k"))]
    ELSE rights

\* variant: the four rights are assigned from the move alone
UpdateCastlingRights_Assigned(rights, moved_piece, captured_piece, mv) ==
    IF \E i \in 0..3 : rights[i]
    THEN [i \in 0..3 |-> ~(moved_piece.piecetype \in {"K", "k"})]
    ELSE rights

\* "remove castling rights if applicable"
UpdateCastlingRights(rights, moved_piece, captured_piece, mv) ==
    IF \E i \in 0..3 : rights[i]
    THEN LET pt == moved_piece.piecetype
             cap == mv.capture # NoLetter
             off(i) ==
                \/ (pt = "K" /\ i \in {0, 1})
                \/ (pt = "k" /\ i \in {2, 3})
                \/ (pt = "R" /\ mv.frm = 7 /\ i = 0)
                \/ (pt = "R" /\ mv.frm # 7 /\ mv.frm = 0 /\ i = 1)
                \/ (pt = "r" /\ mv.frm = 63 /\ i = 2)
                \/ (pt = "r" /\ mv.frm # 63 /\ mv.frm = 56 /\ i = 3)
                \/ (cap /\ is_type(captured_piece, {"K"}) /\ i \in {0, 1})
                \/ (cap /\ is_type(captured_piece, {"k"}) /\ i \in {2, 3})
                \/ (cap /\ is_type(captured_piece, {"R", "r"})
                        /\ mv.to = <<7, 0, 63, 56>>[i + 1])
         IN [i \in 0..3 |-> rights[i] /\ ~off(i)]
    ELSE rights

\* the rejection path: flip back, restore the en passant square, undo, splice mv out
\* variant: the last entry of the list is dropped instead of mv
RejectMove_DropsLast(b, b1, mv) ==
    LET b2 == undo_pseudolegal_move(
                 [b1 EXCEPT !.side_to_move = b.side_to_move,
                            !.en_passant_square = b.en_passant_square], mv)
    IN [b2 EXCEPT !.pseudolegal_moves =
                     SubSeq(b.pseudolegal_moves, 1, Len(b.pseudolegal_moves) - 1)]

RejectMove(b, b1, mv) ==
    LET b2 == undo_pseudolegal_move(
                 [b1 EXCEPT !.side_to_move = b.side_to_move,
                            !.en_passant_square = b.en_passant_square], mv)
    IN [b2 EXCEPT !.pseudolegal_moves = ListRemove(b.pseudolegal_moves, mv)]

\* variant: only the origin square of mv is looked up in the list
NotPseudolegal_ByOrigin(mv, move_list) ==
    ~\E k \in 1..Len(move_list) : move_list[k].frm = mv.frm

\* "first check if even pseudolegal": mv not in move_list
NotPseudolegal(mv, move_list) == ~InList(mv, move_list)

\* the accepted path: castling rights, clocks, histories and the value returned
\* variant: a castle counts as a quiet move for the halfmove clock
AcceptMove_CastleCounts(b1, mv, moved_piece, captured_piece, next_move_list, update_movelist) ==
    LET b2 == [b1 EXCEPT
                 !.castling_rights =
                     UpdateCastlingRights(@, moved_piece, captured_piece, mv),
                 !.full_move_count = IF ~b1.side_to_move THEN @ + 1 ELSE @,
                 !.half_move_count =
                     IF mv.capture # NoLetter \/ moved_piece.piecetype \in {"P", "p"}
                     THEN 0 ELSE @ + 1,
                 !.move_sequence = Append(@, mv)]
        b3 == [b2 EXCEPT !.fen_sequence = Append(@, get_fen(b2))]
    IN  IF update_movelist
        THEN [board |-> [b3 EXCEPT !.pseudolegal_moves = next_move_list],
              ret |-> RetTrue, err |-> NoErr]
        ELSE [board |-> b3, ret |-> RetList(next_move_list), err |-> NoErr]

\* variant: the fullmove number goes up after every move
AcceptMove_CountsEveryMove(b1, mv, moved_piece, captured_piece, next_move_list, update_movelist) ==
    LET b2 == [b1 EXCEPT
                 !.castling_rights =
                     UpdateCastlingRights(@, moved_piece, captured_piece, mv),
                 !.full_move_count = @ + 1,
                 !.half_move_count =
                     IF mv.capture # NoLetter
                        \/ moved_piece.piecetype \in {"P", "p"} \/ mv.is_castle
                     THEN 0 ELSE @ + 1,
                 !.move_sequence = Append(@, mv)]
        b3 == [b2 EXCEPT !.fen_sequence = Append(@, get_fen(b2))]
    IN  IF update_movelist
        THEN [board |-> [b3 EXCEPT !.pseudolegal_moves = next_move_list],
              ret |-> RetTrue, err |-> NoErr]
        ELSE [board |-> b3, ret |-> RetList(next_move_list), err |-> NoErr]

AcceptMove(b1, mv, moved_piece, captured_piece, next_move_list, update_movelist) ==
    LET b2 == [b1 EXCEPT
                 !.castling_rights =
                     UpdateCastlingRights(@, moved_piece, captured_piece, mv),
                 !.full_move_count = IF ~b1.side_to_move THEN @ + 1 ELSE @,
                 !.half_move_count =
                     IF mv.capture # NoLetter
                        \/ moved_piece.piecetype \in {"P", "p"} \/ mv.is_castle
                     THEN 0 ELSE @ + 1,
                 !.move_sequence = Append(@, mv)]
        b3 == [b2 EXCEPT !.fen_sequence = Append(@, get_fen(b2))]
    IN  IF update_movelist
        THEN [board |-> [b3 EXCEPT !.pseudolegal_moves = next_move_list],
              ret |-> RetTrue, err |-> NoErr]
        ELSE [board |-> b3, ret |-> RetList(next_move_list), err |-> NoErr]

\* the two tests on the opponent's replies, b1 being the board after the
\* pseudo-legal move with the side flipped and the en passant square set
CheckReplies(b, b1, mv, moved_piece, captured_piece, next_move_list, update_movelist) ==
    IF CastleThroughCheck(mv, next_move_list)
    THEN [board |-> RejectMove(b, b1, mv), ret |-> RetFalse, err |-> NoErr]
    ELSE IF KingCapturable(b1.side_to_move, next_move_list)
    THEN [board |-> RejectMove(b, b1, mv), ret |-> RetFalse, err |-> NoErr]
    ELSE AcceptMove(b1, mv, moved_piece, captured_piece, next_move_list, update_movelist)

\* "next_move_list = self.generate_pseudolegal_moves()" on the flipped board
GenerateReplies(b, b1, mv, moved_piece, captured_piece, update_movelist) ==
    CheckReplies(b, b1, mv, moved_piece, captured_piece,
                 generate_pseudolegal_moves(b1), update_movelist)

\* what do_move does with the outcome p of do_pseudolegal_move
AfterPseudolegal(b, mv, p, update_movelist) ==
    IF p.err # NoErr THEN [board |-> b, ret |-> RetFalse, err |-> p.err]
    ELSE GenerateReplies(b,
             [p.board EXCEPT !.side_to_move = ~b.side_to_move,
                             !.en_passant_square = NewEnPassant(p.frm_piece, mv)],
             mv, p.frm_piece, p.captured_piece, update_movelist)

do_move(b, mv, update_movelist) ==
    IF NotPseudolegal(mv, b.pseudolegal_moves)
    THEN [board |-> b, ret |-> RetFalse, err |-> NoErr]
    ELSE AfterPseudolegal(b, mv, do_pseudolegal_move(b, mv), update_movelist)

\* "if regenerate_movelist: self.pseudolegal_moves = self.generate_pseudolegal_moves()"
Regenerate(b2, regenerate_movelist) ==
    IF regenerate_movelist
    THEN [b2 EXCEPT !.pseudolegal_moves = generate_pseudolegal_moves(b2)]
    ELSE b2

\* the fields undo_move reads back from the words of the popped FEN
RestoreFromFen(b, lines) ==
    [b EXCEPT
       !.move_sequence = SubSeq(@, 1, Len(@) - 1),
       !.fen_sequence = SubSeq(@, 1, Len(@) - 1),
       !.castling_rights = [i \in 0..3 |-> InList(CastleLetters[i + 1], lines[3])],
       !.en_passant_square = SQUARE_TO_NUM(lines[4]),
       !.half_move_count = StrToInt(lines[5]),
       !.full_move_count = StrToInt(lines[6]),
       !.side_to_move = ~b.side_to_move]

\* variant: the FEN is popped before the move, so an empty move history
\* returns with the FEN history one entry shorter
undo_move_FenPoppedFirst(b, regenerate_movelist) ==
    IF Len(b.fen_sequence) = 0 THEN b
    ELSE IF Len(b.move_sequence) = 0
    THEN [b EXCEPT !.fen_sequence = SubSeq(@, 1, Len(@) - 1)]
    ELSE Regenerate(
             undo_pseudolegal_move(
                 RestoreFromFen(b, SplitBlank(b.fen_sequence[Len(b.fen_sequence)])),
                 b.move_sequence[Len(b.move_sequence)]),
             regenerate_movelist)

undo_move(b, regenerate_movelist) ==
    IF Len(b.move_sequence) = 0 THEN b
    ELSE IF Len(b.fen_sequence) = 0
    THEN [b EXCEPT !.move_sequence = SubSeq(@, 1, Len(@) - 1)]
    ELSE Regenerate(
             undo_pseudolegal_move(
                 RestoreFromFen(b, SplitBlank(b.fen_sequence[Len(b.fen_sequence)])),
                 b.move_sequence[Len(b.move_sequence)]),
             regenerate_movelist)

\* "if self.do_move(mv): self.undo_move(); return True" on the outcome res of do_move
UndoIfMade(res) ==
    IF res.err = NoErr /\ Truthy(res.ret)
    THEN [board |-> undo_move(res.board, TRUE), ret |-> res.ret, err |-> NoErr]
    ELSE res

is_legal(b, mv) == UndoIfMade(do_move(b, mv, TRUE))

\* ------------------------------------------------------------------ perft
\* the local variable add before its first assignment
Unbound == -1

\* the key of a root move in the split dictionary: k[0:2] + k[3:5] of str(move)
SplitKey(move) ==
    LET k == MoveStr(move)
    IN SubSeq(k, 1, 2) \o SubSeq(k, 4, 5)

\* split_dict[k] = v
DictSet(d, k, v) == [x \in (DOMAIN d) \cup {k} |-> IF x = k THEN v ELSE d[x]]

EmptyDict == [x \in {} |-> 0]

\* the local variables of perft between two passes of its loop
PerftState(b, i, nodes, add, split_dict, err) ==
    [board |-> b, i |-> i, nodes |-> nodes, add |-> add,
     split_dict |-> split_dict, err |-> err]

\* "if split: split_dict[k] = add", which runs whether or not the move was made
PerftRecord(st, split, move) ==
    IF split /\ st.add = Unbound THEN [st EXCEPT !.err = "UnboundLocalError"]
    ELSE IF split
    THEN [st EXCEPT !.split_dict = DictSet(@, SplitKey(move), st.add)]
    ELSE st

\* the move was made and sub is what perft(n - 1) returned below it:
\* add = sub, nodes += add, i += 1, undo_move(regenerate_movelist=False),
\* the cached list put back
PerftCounted(st, split, move, old_moves, sub) ==
    IF sub.err # NoErr THEN [st EXCEPT !.board = sub.board, !.err = sub.err]
    ELSE PerftRecord(
             [st EXCEPT
                !.board = [undo_move(sub.board, FALSE) EXCEPT
                             !.pseudolegal_moves = old_moves],
                !.i = @ + 1,
                !.nodes = @ + sub.nodes,
                !.add = sub.nodes],
             split, move)

RECURSIVE perft(_, _, _)
\* temp is what do_move(move, update_movelist=False) returned
PerftTried(st, n, split, move, temp) ==
    IF temp.err # NoErr THEN [st EXCEPT !.err = temp.err]
    ELSE IF Truthy(temp.ret)
    THEN PerftCounted(st, split, move, temp.board.pseudolegal_moves,
                      perft([temp.board EXCEPT !.pseudolegal_moves = temp.ret.list],
                            n - 1, FALSE))
    ELSE PerftRecord([st EXCEPT !.board = temp.board], split, move)

\* one pass of "while i < len(self.pseudolegal_moves)"
PerftPass(st, n, split) ==
    IF st.err # NoErr \/ ~(st.i < Len(st.board.pseudolegal_moves)) THEN st
    ELSE PerftTried(st, n, split, st.board.pseudolegal_moves[st.i + 1],
                    do_move(st.board, st.board.pseudolegal_moves[st.i + 1], FALSE))

\* k passes of the loop, one after the other
RECURSIVE PerftPasses(_, _, _, _)
PerftPasses(st, n, split, k) ==
    IF k = 0 \/ st.err # NoErr THEN st
    ELSE IF k = 1 THEN PerftPass(st, n, split)
    ELSE PerftPasses(PerftPasses(st, n, split, k \div 2), n, split, k - k \div 2)

\* "return nodes, split_dict" / "return nodes"
PerftReturn(st, split) ==
    [board |-> st.board, nodes |-> st.nodes, split_dict |-> st.split_dict,
     pair |-> split, err |-> st.err]

\* A pass advances i or splices one move out of the list, except the pass
\* whose do_move made the move and returned an empty reply list: that one
\* leaves i and the list alone and the pass after it ends in an error. So the
\* loop is over after len(self.pseudolegal_moves) + 1 passes at most; a pass
\* with i at the end of the list does nothing.
perft(b, n, split) ==
    IF n = 0
    THEN [board |-> b, nodes |-> 1, split_dict |-> EmptyDict, pair |-> FALSE, err |-> NoErr]
    ELSE PerftReturn(PerftPasses(PerftState(b, 0, 0, Unbound, EmptyDict, NoErr),
                                 n, split, Len(b.pseudolegal_moves) + 1),
                     split)

\* ------------------------------------------------------ initial positions
\* 4k3/8/8/8/8/8/P3p2P/R3K2R w KQ - 0 1
\*   both white castles cross a square attacked by the pawn on e2
FenCastleWhite ==
    <<"4", "k", "3", "/", "8", "/", "8", "/", "8", "/", "8", "/", "8", "/", "P", "3", "p",
      "2", "P", "/", "R", "3", "K", "2", "R", " ", "w", " ", "K", "Q", " ", "-", " ", "0",
      " ", "1">>

\* r3k2r/p3P2p/8/8/8/8/8/4K3 b kq - 0 1
\*   the mirror image, Black to move
FenCastleBlack ==
    <<"r", "3", "k", "2", "r", "/", "p", "3", "P", "2", "p", "/", "8", "/", "8", "/", "8",
      "/", "8", "/", "8", "/", "4", "K", "3", " ", "b", " ", "k", "q", " ", "-", " ", "0",
      " ", "1">>

\* 4k3/8/8/8/8/3n4/8/4K2R w K - 0 1
\*   the white king is in check from the knight on d3 and may still castle short
FenCastleInCheck ==
    <<"4", "k", "3", "/", "8", "/", "8", "/", "8", "/", "8", "/", "3", "n", "4", "/", "8",
      "/", "4", "K", "2", "R", " ", "w", " ", "K", " ", "-", " ", "0", " ", "1">>

\* 8/8/8/K2pP2r/8/8/8/4k3 w - d6 0 1
\*   the en passant capture uncovers the rook on h5
FenPinnedEnPassant ==
    <<"8", "/", "8", "/", "8", "/", "K", "2", "p", "P", "2", "r", "/", "8", "/", "8", "/",
      "8", "/", "4", "k", "3", " ", "w", " ", "-", " ", "d", "6", " ", "0", " ", "1">>

\* 3n4/r3P2K/8/8/8/8/8/4k3 w - - 0 1
\*   every promotion of the pawn on e7 uncovers the rook on a7
FenPinnedPromotion ==
    <<"3", "n", "4", "/", "r", "3", "P", "2", "K", "/", "8", "/", "8", "/", "8", "/", "8",
      "/", "8", "/", "4", "k", "3", " ", "w", " ", "-", " ", "-", " ", "0", " ", "1">>

\* 4k2r/8/8/8/8/8/8/B3K3 w k - 0 1
\*   the bishop can capture the rook on h8 that Black castles with
FenRookCorner ==
    <<"4", "k", "2", "r", "/", "8", "/", "8", "/", "8", "/", "8", "/", "8", "/", "8", "/",
      "B", "3", "K", "3", " ", "w", " ", "k", " ", "-", " ", "0", " ", "1">>

\* 3rk3/8/8/8/8/8/3PP3/3K4 w - - 0 1
\*   the pawn on d2 is pinned on the d file next to a pawn that can push two squares
FenPinnedPawn ==
    <<"3", "r", "k", "3", "/", "8", "/", "8", "/", "8", "/", "8", "/", "8", "/", "3", "P",
      "P", "3", "/", "3", "K", "4", " ", "w", " ", "-", " ", "-", " ", "0", " ", "1">>

\* 4k2r/6P1/8/8/8/8/8/4K3 w k - 0 1
\*   the pawn on g7 promotes on g8 or by capturing the rook on h8
FenPromotionCorner ==
    <<"4", "k", "2", "r", "/", "6", "P", "1", "/", "8", "/", "8", "/", "8", "/", "8", "/",
      "8", "/", "4", "K", "3", " ", "w", " ", "k", " ", "-", " ", "0", " ", "1">>

\* 4k3/8/8/3pP3/8/8/8/4K3 w - d6 0 1
\*   Black has just played d7-d5: the capture e5xd6 en passant is legal
FenEnPassant ==
    <<"4", "k", "3", "/", "8", "/", "8", "/", "3", "p", "P", "3", "/", "8", "/", "8", "/",
      "8", "/", "4", "K", "3", " ", "w", " ", "-", " ", "d", "6", " ", "0", " ", "1">>

\* r3k2r/8/8/8/8/8/8/4K2R w Kkq - 0 1
\*   the rook on h1 can capture the rook on h8: a corner rook taken by a corner rook
FenRookFile ==
    <<"r", "3", "k", "2", "r", "/", "8", "/", "8", "/", "8", "/", "8", "/", "8", "/", "8", "/",
      "4", "K", "2", "R", " ", "w", " ", "K", "k", "q", " ", "-", " ", "0", " ", "1">>

\* 8/8/8/8/8/p7/P7/4K3 w - - 0 1
\*   Black's only piece is the pawn on a3, blocked by the pawn on a2: after any
\*   move of the white king Black has no pseudo-legal reply
FenNoReply ==
    <<"8", "/", "8", "/", "8", "/", "8", "/", "8", "/", "p", "7", "/", "P", "7",
      "/", "4", "K", "3", " ", "w", " ", "-", " ", "-", " ", "0", " ", "1">>

InitFens ==
    {FenPinnedPawn,
     FenNoReply,
     FenRookFile,
     FenEnPassant,
     FenPromotionCorner,
     FenCastleWhite,
     FenCastleBlack,
     FenCastleInCheck,
     FenPinnedEnPassant,
     FenPinnedPromotion,
     FenRookCorner}

\* ---------------------------------------------------------- state machine
VARIABLES
    square_list, piece_list, piece_count, side_to_move, castling_rights,
    en_passant_square, half_move_count, full_move_count,
    pseudolegal_moves, move_sequence, fen_sequence,
    op,     \* the last public call: its name, arguments, returned value, error
    snap,   \* the board as it was when the last call other than undo_move was entered
    ops     \* number of public calls made on the board

boardvars ==
    <<square_list, piece_list, piece_count, side_to_move, castling_rights,
      en_passant_square, half_move_count, full_move_count,
      pseudolegal_moves, move_sequence, fen_sequence>>

vars == <<boardvars, op, snap, ops>>

Board ==
    [side_to_move |-> side_to_move,
     castling_rights |-> castling_rights,
     en_passant_square |-> en_passant_square,
     half_move_count |-> half_move_count,
     full_move_count |-> full_move_count,
     piece_list |-> piece_list,
     piece_count |-> piece_count,
     square_list |-> square_list,
     pseudolegal_moves |-> pseudolegal_moves,
     move_sequence |-> move_sequence,
     fen_sequence |-> fen_sequence]

SetBoard(b) ==
    /\ side_to_move' = b.side_to_move
    /\ castling_rights' = b.castling_rights
    /\ en_passant_square' = b.en_passant_square
    /\ half_move_count' = b.half_move_count
    /\ full_move_count' = b.full_move_count
    /\ piece_list' = b.piece_list
    /\ piece_count' = b.piece_count
    /\ square_list' = b.square_list
    /\ pseudolegal_moves' = b.pseudolegal_moves
    /\ move_sequence' = b.move_sequence
    /\ fen_sequence' = b.fen_sequence

NoMove == Quiet(-1, -1, NoPiece)

Call(name, mv, n, split, ret, pair, nodes, split_dict, err) ==
    [name |-> name, mv |-> mv, n |-> n, split |-> split, ret |-> ret, pair |-> pair,
     nodes |-> nodes, split_dict |-> split_dict, err |-> err, prev |-> op.name,
     prevret |-> op.ret]

\* the state right after read_fen has built board b
Loaded(b) ==
    /\ side_to_move = b.side_to_move
    /\ castling_rights = b.castling_rights
    /\ en_passant_square = b.en_passant_square
    /\ half_move_count = b.half_move_count
    /\ full_move_count = b.full_move_count
    /\ piece_list = b.piece_list
    /\ piece_count = b.piece_count
    /\ square_list = b.square_list
    /\ pseudolegal_moves = b.pseudolegal_moves
    /\ move_sequence = b.move_sequence
    /\ fen_sequence = b.fen_sequence
    /\ op = [name |-> "read_fen", mv |-> NoMove, n |-> 0, split |-> FALSE,
             ret |-> FALSE, pair |-> FALSE, nodes |-> 0, split_dict |-> EmptyDict,
             err |-> NoErr, prev |-> "", prevret |-> FALSE]
    /\ snap = b
    /\ ops = 0

Init == \E fen \in InitFens : Loaded(read_fen(fen))

\* the move of test_do_move that is not even pseudo-legal: e1 to b4 by the piece on e1
TestMoves == IF square_list[4] # NoPiece THEN {Quiet(4, 25, square_list[4])} ELSE {}

\* the moves a caller may hand to do_move / is_legal: the cached list, the list of
\* the previous call (it still holds a move that was rejected and spliced out),
\* and the test move
Candidates ==
    {pseudolegal_moves[k] : k \in 1..Len(pseudolegal_moves)}
      \cup {snap.pseudolegal_moves[k] : k \in 1..Len(snap.pseudolegal_moves)}
      \cup TestMoves

Running == op.err = NoErr /\ ops < MaxOps

\* a call of do_move / is_legal has returned d
ReturnMove(name, mv, d) ==
    /\ SetBoard(d.board)
    /\ op' = Call(name, mv, 0, FALSE, Truthy(d.ret), FALSE, 0, EmptyDict, d.err)
    /\ snap' = Board
    /\ ops' = ops + 1

\* a call of perft has returned d
ReturnPerft(n, split, d) ==
    /\ SetBoard(d.board)
    /\ op' = Call("perft", NoMove, n, split, FALSE, d.pair, d.nodes, d.split_dict, d.err)
    /\ snap' = Board
    /\ ops' = ops + 1

DoMove(mv) ==
    /\ Running
    /\ ReturnMove("do_move", mv, do_move(Board, mv, TRUE))

UndoMove ==
    /\ Running
    /\ SetBoard(undo_move(Board, TRUE))
    /\ op' = Call("undo_move", NoMove, 0, FALSE, FALSE, FALSE, 0, EmptyDict, NoErr)
    /\ snap' = snap
    /\ ops' = ops + 1

IsLegal(mv) ==
    /\ Running
    /\ ReturnMove("is_legal", mv, is_legal(Board, mv))

\* perft is run on a board fresh from read_fen, as in test_perft, run_test and test_script
Perft(n, split) ==
    /\ Running
    /\ op.name = "read_fen"
    /\ ReturnPerft(n, split, perft(Board, n, split))

Next ==
    \/ \E mv \in Candidates : DoMove(mv)
    \/ UndoMove
    \/ \E mv \in Candidates : IsLegal(mv)
    \/ \E n \in 0..MaxDepth, split \in BOOLEAN : Perft(n, split)

Spec == Init /\ [][Next]_vars

\* the boards reached from a FEN by do_move and undo_move alone
NextMoves ==
    \/ \E mv \in Candidates : DoMove(mv)
    \/ UndoMove

SpecMoves == Init /\ [][NextMoves]_vars

\* ------------------------------------------------------------ read_fen as a call
\* 4k3/8/8/8/8/8/8/4K2 w - - 0 1
\*   the first rank has 7 files
FenShortRank ==
    <<"4", "k", "3", "/", "8", "/", "8", "/", "8", "/", "8", "/", "8", "/", "8", "/", "4",
      "K", "2", " ", "w", " ", "-", " ", "-", " ", "0", " ", "1">>

\* 4k3/8/8/8/8/8/8/3PK3P w - - 0 1
\*   the first rank has 9 files
FenLongRank ==
    <<"4", "k", "3", "/", "8", "/", "8", "/", "8", "/", "8", "/", "8", "/", "8", "/", "3",
      "P", "K", "3", "P", " ", "w", " ", "-", " ", "-", " ", "0", " ", "1">>

\* 4k3/8/8/8/8/8/8/4X3 w - - 0 1
\*   X is no piece letter
FenUnknownLetter ==
    <<"4", "k", "3", "/", "8", "/", "8", "/", "8", "/", "8", "/", "8", "/", "8", "/", "4",
      "X", "3", " ", "w", " ", "-", " ", "-", " ", "0", " ", "1">>

\* 4k3/8/8/8/8/8/8/4K3 w - -
\*   the two clocks are missing
FenMissingField ==
    <<"4", "k", "3", "/", "8", "/", "8", "/", "8", "/", "8", "/", "8", "/", "8", "/", "4",
      "K", "3", " ", "w", " ", "-", " ", "-">>

\* 4k3/8/8/8/8/8/8/4K3 w - - x 1
\*   the halfmove clock is no integer
FenBadClock ==
    <<"4", "k", "3", "/", "8", "/", "8", "/", "8", "/", "8", "/", "8", "/", "8", "/", "4",
      "K", "3", " ", "w", " ", "-", " ", "-", " ", "x", " ", "1">>

MalformedFens ==
    {FenShortRank, FenLongRank, FenUnknownLetter, FenMissingField, FenBadClock}

\* r3k1Br/8/8/8/8/8/8/RN2K2R w KQkq - 0 1
\*   all four rights; White's long castle is blocked by the knight on b1,
\*   Black's short castle by the white bishop on g8
FenBlockedCastles ==
    <<"r", "3", "k", "1", "B", "r", "/", "8", "/", "8", "/", "8", "/", "8", "/", "8", "/",
      "8", "/", "R", "N", "2", "K", "2", "R", " ", "w", " ", "K", "Q", "k", "q", " ", "-",
      " ", "0", " ", "1">>

\* the FENs handed to read_fen: well-formed ones and the malformed ones
FenInputs ==
    {FenEnPassant, FenBlockedCastles, FenCastleBlack, FenPromotionCorner} \cup MalformedFens

\* the caller has no board yet
NotLoaded ==
    /\ side_to_move = EmptyBoard.side_to_move
    /\ castling_rights = EmptyBoard.castling_rights
    /\ en_passant_square = EmptyBoard.en_passant_square
    /\ half_move_count = EmptyBoard.half_move_count
    /\ full_move_count = EmptyBoard.full_move_count
    /\ piece_list = EmptyBoard.piece_list
    /\ piece_count = EmptyBoard.piece_count
    /\ square_list = EmptyBoard.square_list
    /\ pseudolegal_moves = EmptyBoard.pseudolegal_moves
    /\ move_sequence = EmptyBoard.move_sequence
    /\ fen_sequence = EmptyBoard.fen_sequence
    /\ op = [name |-> "start", mv |-> NoMove, n |-> 0, split |-> FALSE,
             ret |-> FALSE, pair |-> FALSE, nodes |-> 0, split_dict |-> EmptyDict,
             err |-> NoErr, prev |-> "", prevret |-> FALSE]
    /\ snap = EmptyBoard
    /\ ops = 0

\* read_fen has raised e and returned nothing, or has returned board b
ReturnReadFen(e, b) ==
    /\ SetBoard(b)
    /\ op' = Call("read_fen", NoMove, 0, FALSE, FALSE, FALSE, 0, EmptyDict, e)
    /\ snap' = b
    /\ ops' = 0

ReadFen(fen) ==
    /\ op.name = "start"
    /\ ReturnReadFen(read_fen_raises(fen),
                     IF read_fen_raises(fen) = NoErr THEN read_fen(fen) ELSE EmptyBoard)

NextFen ==
    \/ \E fen \in FenInputs : ReadFen(fen)
    \/ op.name # "start" /\ NextMoves

SpecFen == NotLoaded /\ [][NextFen]_vars

\* ------------------------------------------------------------ properties
\* the piece letter on every square
Letters(b) == [s \in 0..63 |-> b.square_list[s].piecetype]

\* the 64 squares, the piece counts and the scalar state of a board
Position(b) ==
    [squares |-> Letters(b),
     piece_count |-> b.piece_count,
     side_to_move |-> b.side_to_move,
     castling_rights |-> b.castling_rights,
     en_passant_square |-> b.en_passant_square,
     half_move_count |-> b.half_move_count,
     full_move_count |-> b.full_move_count]

History(b) == <<b.move_sequence, b.fen_sequence>>

KingOf(side) == IF side THEN "k" ELSE "K"

\* the position right after m is applied to b: pieces moved, side flipped,
\* en passant square set by a double pawn push
Applied(b, m) ==
    LET p == do_pseudolegal_move(b, m)
    IN [p.board EXCEPT !.side_to_move = ~b.side_to_move,
                       !.en_passant_square = NewEnPassant(p.frm_piece, m)]

\* f1 / d1 for White, f8 / d8 for Black
CrossedSquare(m) ==
    CASE m.to = 6 -> 5 [] m.to = 2 -> 3 [] m.to = 62 -> 61 [] m.to = 58 -> 59
      [] OTHER -> NoSquare

Replies(b, m) == generate_pseudolegal_moves(Applied(b, m))

\* no reply to m captures the mover's king and, for a castle, none lands on
\* the square the king crossed
PassesFilter(b, m) ==
    LET replies == Replies(b, m)
    IN  /\ \A k \in 1..Len(replies) : replies[k].capture # KingOf(b.side_to_move)
        /\ m.is_castle => \A k \in 1..Len(replies) : replies[k].to # CrossedSquare(m)

\* the king of the side to move stands on a square an opposing piece could capture on
InCheck(b) ==
    LET opp == generate_pseudolegal_moves(
                  [b EXCEPT !.side_to_move = ~b.side_to_move,
                            !.en_passant_square = NoSquare])
    IN \E k \in 1..Len(opp) : opp[k].capture = KingOf(b.side_to_move)

\* the pseudo-legal moves of b that make accepts, each tried on the same board b
LegalMoves(b) ==
    LET moves == generate_pseudolegal_moves(b)
        fresh == [b EXCEPT !.pseudolegal_moves = moves]
    IN SelectSeq(moves, LAMBDA m : Truthy(do_move(fresh, m, TRUE).ret))

\* the position reached by m from b
After(b, m) ==
    do_move([b EXCEPT !.pseudolegal_moves = generate_pseudolegal_moves(b)], m, TRUE).board

\* number of leaves at depth d of the legal move tree below b
RECURSIVE LeafCount(_, _)
LeafCount(b, d) ==
    IF d = 0 THEN 1
    ELSE LET legal == LegalMoves(b)
             counts == [k \in 1..Len(legal) |-> LeafCount(After(b, legal[k]), d - 1)]
             RECURSIVE Sum(_)
             Sum(k) == IF k = 0 THEN 0 ELSE Sum(k - 1) + counts[k]
         IN Sum(Len(legal))

\* <from><to>[<promo>]
MoveKey(m) ==
    NUM_TO_SQUARE(m.frm) \o NUM_TO_SQUARE(m.to)
      \o (IF m.promotion # NoLetter THEN <<Upper(m.promotion)>> ELSE <<>>)

RECURSIVE SumValues(_, _)
SumValues(d, keys) ==
    IF keys = {} THEN 0
    ELSE LET k == CHOOSE x \in keys : TRUE
         IN d[k] + SumValues(d, keys \ {k})

\* C1: make_move(m) that succeeds followed by unmake_move() restores the 64
\* squares, the piece counts, side to move, castling rights, en passant
\* square and both clocks to their values before the make.
C1_MakeUnmakeRestores ==
    (op.name = "undo_move" /\ op.prev = "do_move" /\ op.prevret)
        => Position(Board) = Position(snap)

\* C2: perft(d) is the number of leaves of the legal move tree at depth d,
\* every sibling subtree counted from the same unchanged parent position.
C2_PerftCountsLeaves ==
    (op.name = "perft" /\ op.err = NoErr) => op.nodes = LeafCount(snap, op.n)

\* C3: a make_move that rejects a move of the cached list leaves squares,
\* counts, side to move, castling rights, en passant square, clocks and
\* move history as they were.
C3_RejectedMakeUnchanged ==
    (op.name = "do_move" /\ ~op.ret /\ op.err = NoErr
       /\ InList(op.mv, snap.pseudolegal_moves))
        => Position(Board) = Position(snap) /\ History(Board) = History(snap)

\* C4: after a successful make_move no pseudo-legal move of the new side to
\* move captures the king of the side that just moved.
C4_MoverNotInCheck ==
    (op.name = "do_move" /\ op.ret)
        => LET replies == generate_pseudolegal_moves(Board)
           IN \A k \in 1..Len(replies) : replies[k].capture # KingOf(snap.side_to_move)

\* C4 witness: a side that was in check has made a move that was accepted
C4_Witness == op.name = "do_move" /\ op.ret /\ InCheck(snap)

C6_IsLegalLeavesBoard ==
    op.name = "is_legal"
        => Position(Board) = Position(snap) /\ History(Board) = History(snap)

\* C7: make_move of a castle returns false whenever some reply in the
\* post-castle position lands on the square the king crossed.
C7_CastleThroughCheckRejected ==
    (op.name = "do_move" /\ op.mv.is_castle /\ InList(op.mv, snap.pseudolegal_moves)
       /\ \E k \in 1..Len(Replies(snap, op.mv)) :
              Replies(snap, op.mv)[k].to = CrossedSquare(op.mv))
        => ~op.ret

\* C7 witness: Black's long castle across the attacked square d8 was rejected
C7_Witness ==
    op.name = "do_move" /\ ~op.ret /\ op.mv.is_castle /\ op.mv.to = 58
      /\ snap.side_to_move /\ InList(op.mv, snap.pseudolegal_moves)

\* C8: make_move never accepts a castle made by a king that is in check
\* on its starting square.
C8_NoCastleOutOfCheck ==
    (op.name = "do_move" /\ op.mv.is_castle /\ InList(op.mv, snap.pseudolegal_moves)
       /\ InCheck(snap))
        => ~op.ret

C10_SplitMapPerLegalRootMove ==
    (op.name = "perft" /\ op.split /\ op.n >= 1)
        => LET legal == LegalMoves(snap)
               keys  == {MoveKey(legal[k]) : k \in 1..Len(legal)}
           IN  /\ op.err = NoErr
               /\ op.pair
               /\ DOMAIN op.split_dict = keys
               /\ Cardinality(keys) = Len(legal)
               /\ \A k \in 1..Len(legal) :
                     op.split_dict[MoveKey(legal[k])]
                         = LeafCount(After(snap, legal[k]), op.n - 1)
               /\ SumValues(op.split_dict, DOMAIN op.split_dict) = op.nodes

\* C11: in the perft split map a promoting root move has a 5-letter key that
\* ends in its promotion letter, so the four promotions of one pawn to one
\* square have four entries, each holding the leaf count below that move.
C11_PromotionKeys ==
    (op.name = "perft" /\ op.split /\ op.n >= 1 /\ op.err = NoErr)
        => LET legal == LegalMoves(snap)
           IN \A k \in 1..Len(legal) :
                 legal[k].promotion # NoLetter
                     => /\ Len(MoveKey(legal[k])) = 5
                        /\ MoveKey(legal[k]) \in DOMAIN op.split_dict
                        /\ op.split_dict[MoveKey(legal[k])]
                               = LeafCount(After(snap, legal[k]), op.n - 1)

\* b2 is the board read back from fen, the FEN of b: it prints as fen again
\* and agrees with b on squares, counts, side, rights, en passant and clocks
SameAfterRoundTrip(b, fen, b2) ==
    /\ get_fen(b2) = fen
    /\ Position(b2) = Position(b)

RoundTrips(b, fen) == SameAfterRoundTrip(b, fen, read_fen(fen))

\* C12: for every board B reached from a well-formed FEN by do_move and
\* undo_move, get_fen(read_fen(get_fen(B))) = get_fen(B), and
\* read_fen(get_fen(B)) has the squares, piece counts, side to move, castling
\* rights, en passant square and clocks of B.
C12_FenRoundTrip ==
    op.err = NoErr => RoundTrips(Board, get_fen(Board))

\* C12 witness: a made double pawn push, so the FEN carries an en passant
\* square, a changed placement and a flipped side
C12_Witness ==
    op.name = "do_move" /\ op.ret /\ op.prev = "read_fen"
      /\ en_passant_square # NoSquare /\ side_to_move

\* C13: a call of do_move, accepted or rejected, never turns a castling right
\* that was false before the call into true
C13_RightsNeverReturn ==
    (op.name = "do_move" /\ op.err = NoErr)
        => \A i \in 0..3 : castling_rights[i] => snap.castling_rights[i]

\* C13 witness: an accepted move removed one right, kept another, and a right
\* that was false before stayed false
C13_Witness ==
    /\ op.name = "do_move" /\ op.ret
    /\ \E i \in 0..3 : snap.castling_rights[i] /\ ~castling_rights[i]
    /\ \E i \in 0..3 : snap.castling_rights[i] /\ castling_rights[i]
    /\ \E i \in 0..3 : ~snap.castling_rights[i] /\ ~castling_rights[i]

\* the number of squares of b that carry piece letter p
SquaresWith(b, p) == Cardinality({s \in 0..63 : b.square_list[s].piecetype = p})

\* C14: after read_fen, after every do_move (accepted or rejected) and after
\* every undo_move, piece_count[p] is the number of squares carrying p, for
\* each of the 12 piece letters
C14_CountsMatchSquares ==
    op.err = NoErr
        => \A p \in PieceLetters : piece_count[p] = SquaresWith(Board, p)

\* C14 witness: an accepted en passant capture, which empties a square other
\* than the two squares of the move, has lowered the count of black pawns
C14_Witness ==
    /\ op.name = "do_move" /\ op.ret /\ op.mv.is_enpassant
    /\ snap.piece_count["p"] = 1 /\ piece_count["p"] = 0

\* C15: after read_fen, after every do_move (accepted or rejected) and after
\* every undo_move, the cached pseudolegal_moves list is exactly what
\* generate_pseudolegal_moves gives for the current position
C15_CachedListIsGenerated ==
    op.err = NoErr => pseudolegal_moves = generate_pseudolegal_moves(Board)

\* the king and the rook of castling right i stand on their starting squares
HomeForRight(b, i) ==
    /\ b.square_list[IF i <= 1 THEN 4 ELSE 60].piecetype = (IF i <= 1 THEN "K" ELSE "k")
    /\ b.square_list[<<7, 0, 63, 56>>[i + 1]].piecetype = (IF i <= 1 THEN "R" ELSE "r")

\* C16: on every board reached by do_move and undo_move from a FEN whose
\* rights agree with its placement, a castling right that is true has its king
\* on e1 / e8 and its rook on h1, a1, h8, a8 (rights 0..3)
C16_RightsImplyHomeSquares ==
    op.err = NoErr
        => \A i \in 0..3 : castling_rights[i] => HomeForRight(Board, i)

\* C16 witness: a rook has left its corner by an accepted move, the other
\* right of that king is still there
C16_Witness ==
    /\ op.name = "do_move" /\ op.ret
    /\ op.mv.moving_piece_FEN = "R" /\ op.mv.frm \in {0, 7, 56, 63}
    /\ \E i \in 0..3 : castling_rights[i]

\* C17: on every board reached by do_move and undo_move from a well-formed
\* FEN, an en passant square that is set lies on rank 3 with Black to move and
\* White's pawn on the square next to it on rank 4, or on rank 6 with White to
\* move and Black's pawn next to it on rank 5: it is the square passed over by
\* the pawn that has just made a double step
C17_EnPassantBehindPusher ==
    (op.err = NoErr /\ en_passant_square # NoSquare)
        => \/ /\ en_passant_square \div 8 = 2
              /\ side_to_move
              /\ square_list[en_passant_square + 8].piecetype = "P"
           \/ /\ en_passant_square \div 8 = 5
              /\ ~side_to_move
              /\ square_list[en_passant_square - 8].piecetype = "p"

\* the corner of castling right i: h1, a1, h8, a8
Corner(i) == <<7, 0, 63, 56>>[i + 1]

\* the last call was an accepted do_move that captured a rook on the corner
\* where the rooks of its colour start
CapturedCornerRook ==
    /\ op.name = "do_move" /\ op.ret /\ op.err = NoErr
    /\ \/ op.mv.capture = "R" /\ op.mv.to \in {0, 7}
       \/ op.mv.capture = "r" /\ op.mv.to \in {56, 63}

\* right i belongs to the side that made move m on board b, and m moves that
\* side's king, or its rook away from the corner of right i
MoverGivesUp(b, m, i) ==
    LET pt == b.square_list[m.frm].piecetype
    IN \/ pt = "K" /\ i \in {0, 1}
       \/ pt = "k" /\ i \in {2, 3}
       \/ pt = "R" /\ i \in {0, 1} /\ m.frm = Corner(i)
       \/ pt = "r" /\ i \in {2, 3} /\ m.frm = Corner(i)

\* C18 as stated: an accepted do_move that captures a rook on its corner
\* removes exactly one castling right, the one of that corner, and leaves the
\* other three as they were
C18_ExactlyOneRightRemoved ==
    CapturedCornerRook
        => \A i \in 0..3 :
              castling_rights[i] = (snap.castling_rights[i] /\ Corner(i) # op.mv.to)

\* C18 amended: an accepted do_move that captures a rook on its corner clears
\* the right of that corner; of the other three it clears those the capturing
\* side gives up by moving its king or its rook from its own corner, and it
\* leaves the rest as they were
C18_CornerRightRemoved ==
    CapturedCornerRook
        => \A i \in 0..3 :
              castling_rights[i] = /\ snap.castling_rights[i]
                                   /\ Corner(i) # op.mv.to
                                   /\ ~MoverGivesUp(snap, op.mv, i)

\* C18 witness: the rook from h1 has taken the rook on h8; White's short right
\* and Black's short right are gone, Black's long right is still there
C18_Witness ==
    /\ CapturedCornerRook
    /\ op.mv.frm = 7 /\ op.mv.to = 63
    /\ snap.castling_rights[0] /\ ~castling_rights[0]
    /\ snap.castling_rights[2] /\ ~castling_rights[2]
    /\ snap.castling_rights[3] /\ castling_rights[3]

\* C19: a call of undo_move on a board whose move history is empty raises
\* nothing and changes nothing: squares, piece list, counts, side, rights, en
\* passant square, clocks, both histories and the cached move list stay
C19_UndoOnEmptyHistory ==
    [][(op'.name = "undo_move" /\ move_sequence = <<>>)
          => (op'.err = NoErr /\ UNCHANGED boardvars)]_vars

\* C19 witness: undo_move was the first call after read_fen, and undo_move was
\* called again after the only move made had been taken back
C19_Witness ==
    /\ op.name = "undo_move" /\ op.err = NoErr
    /\ op.prev \in {"read_fen", "undo_move"}
    /\ move_sequence = <<>> /\ Len(fen_sequence) = 1

\* the files a placement rank fills: one per piece letter, d per digit d
RECURSIVE RankWidth(_)
RankWidth(rank) ==
    IF rank = <<>> THEN 0
    ELSE (IF IsDigit(Head(rank)) THEN DigitVal(Head(rank)) ELSE 1) + RankWidth(Tail(rank))

\* a FEN of six fields, with 8 ranks of piece letters and digits that fill 8
\* files each, and decimal integers as clocks
WellFormedFen(fen) ==
    LET lines == SplitBlank(fen)
    IN /\ Len(lines) = 6
       /\ LET ranks == SplitOn(lines[1], "/")
          IN /\ Len(ranks) = 8
             /\ \A k \in 1..8 :
                   /\ \A j \in 1..Len(ranks[k]) :
                         ranks[k][j] \in PieceLetters \/ IsDigit(ranks[k][j])
                   /\ RankWidth(ranks[k]) = 8
       /\ IntRaises(lines[5]) = NoErr
       /\ IntRaises(lines[6]) = NoErr

\* C20: read_fen returns a board only for a well-formed FEN: given a FEN with
\* a rank that does not fill 8 files, an unknown piece letter, a missing field
\* or a clock that is no integer, it raises an error and there is no board
C20_MalformedFenRejected ==
    /\ fen_sequence # <<>> => WellFormedFen(fen_sequence[1])
    /\ op.err # NoErr => Board = EmptyBoard

\* castling rights, en passant square, halfmove clock and fullmove number as
\* the words 3..6 of a FEN spell them
ScalarWords(fen) == SubSeq(SplitBlank(fen), 3, 6)

\* C21: an accepted do_move(m) appends m to the move history and, as the FEN
\* that undo_move will pop for m, the FEN of the position m was made from: its
\* castling rights, en passant square and clocks are those before the move
C21_HistoryHoldsPreMoveFen ==
    (op.name = "do_move" /\ op.ret /\ op.err = NoErr)
        => /\ move_sequence # <<>> /\ fen_sequence # <<>>
           /\ move_sequence[Len(move_sequence)] = op.mv
           /\ ScalarWords(fen_sequence[Len(fen_sequence)]) = ScalarWords(get_fen(snap))

\* r is the outcome of do_pseudolegal_move(b, m): the move was carried out, and
\* undo_pseudolegal_move on it, the side to move still that of b, gives back
\* the piece letters of all 64 squares and the 12 piece counts of b
PrimitiveReverses(b, m, r) ==
    /\ r.err = NoErr
    /\ Letters(undo_pseudolegal_move(r.board, m)) = Letters(b)
    /\ undo_pseudolegal_move(r.board, m).piece_count = b.piece_count

\* C22: for every move m of the cached pseudo-legal list, of every kind,
\* do_pseudolegal_move(m) followed by undo_pseudolegal_move(m) with the
\* original side to move restores all 64 squares and all piece counts
C22_PrimitiveReversible ==
    op.err = NoErr
        => \A k \in 1..Len(pseudolegal_moves) :
              PrimitiveReverses(Board, pseudolegal_moves[k],
                                do_pseudolegal_move(Board, pseudolegal_moves[k]))

\* the last call was a do_move that rejected a move of the cached list
RejectedListedMove ==
    /\ op.name = "do_move" /\ ~op.ret /\ op.err = NoErr
    /\ InList(op.mv, snap.pseudolegal_moves)

\* res is what do_move returns for a move on board b: False, no error, and b
\* as it was
ReturnsFalseUntouched(b, res) ==
    /\ res.err = NoErr /\ ~Truthy(res.ret)
    /\ res.board = b

\* C23: when do_move rejects a move m of the cached list, the list afterwards
\* is the list before without m, the other entries in their order; m is then
\* not in the list, and a second do_move(m) returns False and leaves the
\* board, histories and list as they are
C23_RejectedMoveSplicedOut ==
    RejectedListedMove
        => /\ pseudolegal_moves
                 = SelectSeq(snap.pseudolegal_moves, LAMBDA x : x # op.mv)
           /\ Len(pseudolegal_moves) = Len(snap.pseudolegal_moves) - 1
           /\ NotPseudolegal(op.mv, pseudolegal_moves)
           /\ ReturnsFalseUntouched(Board, do_move(Board, op.mv, TRUE))

\* C23 witness: the rejected move was made a second time, and the first
\* rejection had taken an entry from the middle of the list
C23_Witness ==
    /\ op.name = "do_move" /\ ~op.ret /\ op.prev = "do_move" /\ ~op.prevret
    /\ ~InList(op.mv, snap.pseudolegal_moves)
    /\ op.mv \notin TestMoves
    /\ Board = snap
    /\ Len(pseudolegal_moves) >= 2
    /\ \E fen \in InitFens :
          LET l == read_fen(fen).pseudolegal_moves
          IN /\ InList(op.mv, l)
             /\ IndexOf(op.mv, l) \in 2..(Len(l) - 1)
             /\ pseudolegal_moves = ListRemove(l, op.mv)

\* one pass of the loop of perft took st to st2: the index went up by one
\* and the list kept its length, or the index stayed and the list lost one entry
PassShape(st, st2) ==
    /\ st2.err = NoErr
    /\ \/ /\ st2.i = st.i + 1
          /\ Len(st2.board.pseudolegal_moves) = Len(st.board.pseudolegal_moves)
       \/ /\ st2.i = st.i
          /\ Len(st2.board.pseudolegal_moves) = Len(st.board.pseudolegal_moves) - 1

\* the loop was in state st with an entry left to try, and its pass gave st2
\* with the shape above
PassChecked(st, st2) ==
    [ok |-> st.i < Len(st.board.pseudolegal_moves) /\ PassShape(st, st2), st |-> st2]

\* k passes of the loop from r.st, each one checked
RECURSIVE PassesChecked(_, _, _)
PassesChecked(r, n, k) ==
    IF k = 0 \/ ~r.ok THEN r
    ELSE IF k = 1 THEN PassChecked(r.st, PerftPass(r.st, n, FALSE))
    ELSE PassesChecked(PassesChecked(r, n, k \div 2), n, k - k \div 2)

\* all passes had the shape, and the loop condition is false after them
LoopEnded(r) == r.ok /\ ~(r.st.i < Len(r.st.board.pseudolegal_moves))

\* every pass of the loop of perft(n) on board b has that shape, and the loop
\* ends after as many passes as the list of b has entries
LoopShape(b, n) ==
    LoopEnded(PassesChecked(
        [ok |-> TRUE, st |-> PerftState(b, 0, 0, Unbound, EmptyDict, NoErr)],
        n, Len(b.pseudolegal_moves)))

\* every entry of list passes the legality filter on board b
AllPassFilter(b, list) == \A k \in 1..Len(list) : PassesFilter(b, list[k])

\* C24 as stated: perft(d) returns for every depth d >= 0, every pass of its
\* loop advances the index or shortens the list by one, and when it returns
\* every entry left in the cached list of the root is a legal move
C24_PerftReturnsLegalList ==
    (op.name = "perft" /\ ~op.split)
        => /\ op.err = NoErr
           /\ op.n >= 1 => LoopShape(snap, op.n)
           /\ AllPassFilter(snap, pseudolegal_moves)

\* the rules by which move m made on board b clears castling right i: a move
\* of the king of the right's colour, a rook move from the corner of the
\* right, a capture on that corner
ClearsRight(b, m, i) ==
    \/ b.square_list[m.frm].piecetype = (IF i <= 1 THEN "K" ELSE "k")
    \/ b.square_list[m.frm].piecetype \in {"R", "r"} /\ m.frm = Corner(i)
    \/ m.capture # NoLetter /\ ~m.is_enpassant /\ m.to = Corner(i)

\* C25: after an accepted do_move(m) each castling right is what it was,
\* unless m is a move of the king of its colour, a rook move from its corner
\* or a capture on its corner, which clear it; a move that is none of these
\* leaves all four rights unchanged
C25_CastlingRightsRules ==
    (op.name = "do_move" /\ op.ret /\ op.err = NoErr)
        => \A i \in 0..3 :
              castling_rights[i]
                  = (snap.castling_rights[i] /\ ~ClearsRight(snap, op.mv, i))

\* C25 witness: a capture on a corner by a piece that is neither king nor
\* rook has cleared the right of that corner
C25_Witness ==
    /\ op.name = "do_move" /\ op.ret
    /\ op.mv.capture # NoLetter /\ op.mv.moving_piece_FEN \notin {"K", "R"}
    /\ \E i \in 0..3 : /\ op.mv.to = Corner(i)
                        /\ snap.castling_rights[i] /\ ~castling_rights[i]

\* m, made on board b, is a pawn move of two ranks
DoublePush(b, m) ==
    /\ b.square_list[m.frm].piecetype \in {"P", "p"}
    /\ m.to - m.frm \in {16, -16}

\* C26: after an accepted do_move(m) the en passant square is the square m
\* passed over when m is a double pawn push, on rank 3 for a white push and on
\* rank 6 for a black one, and is none for every other move, whatever it was
\* before
C26_EnPassantAfterMake ==
    (op.name = "do_move" /\ op.ret /\ op.err = NoErr)
        => IF DoublePush(snap, op.mv)
           THEN /\ en_passant_square = (op.mv.frm + op.mv.to) \div 2
                /\ en_passant_square \div 8 = (IF snap.side_to_move THEN 5 ELSE 2)
           ELSE en_passant_square = NoSquare

\* C26 witness: Black has made a double pawn push
C26_Witness ==
    /\ op.name = "do_move" /\ op.ret /\ snap.side_to_move
    /\ DoublePush(snap, op.mv)
    /\ en_passant_square \in 40..47

\* C26 witness of the other case: a move that is no double push was made on a
\* board that had an en passant square
C26_WitnessCleared ==
    /\ op.name = "do_move" /\ op.ret /\ ~DoublePush(snap, op.mv)
    /\ snap.en_passant_square # NoSquare

C27_WitnessCounted ==
    /\ op.name = "do_move" /\ op.ret /\ op.prev = "do_move" /\ op.prevret
    /\ snap.half_move_count = 1 /\ half_move_count = 2

C27_WitnessRejected ==
    /\ op.name = "do_move" /\ ~op.ret /\ InList(op.mv, snap.pseudolegal_moves)
    /\ snap.half_move_count = 1 /\ half_move_count = 1

\* the side to move and the fullmove number of the FEN the board was read from
StartedWhite == SplitBlank(fen_sequence[1])[2] = <<"w">>

StartFullmove == StrToInt(SplitBlank(fen_sequence[1])[6])

\* C28: an accepted do_move by Black adds exactly 1 to the fullmove number, an
\* accepted do_move by White and a rejected do_move leave it as it was; after
\* n accepted makes in a row from a position with White to move and fullmove
\* number f it is f + floor(n / 2)
C28_FullmoveNumber ==
    /\ (op.name = "do_move" /\ op.err = NoErr)
          => full_move_count
               = IF op.ret /\ snap.side_to_move THEN snap.full_move_count + 1
                 ELSE snap.full_move_count
    /\ (op.err = NoErr /\ op.name \in {"read_fen", "do_move"} /\ StartedWhite
          /\ Len(move_sequence) = ops)
          => full_move_count = StartFullmove + (ops \div 2)

\* C28 witness: White and then Black have made a move, the first two calls
\* after read_fen, and the fullmove number has gone from 1 to 2
C28_Witness ==
    /\ op.name = "do_move" /\ op.ret /\ snap.side_to_move
    /\ StartedWhite /\ StartFullmove = 1
    /\ ops = 2 /\ Len(move_sequence) = 2
    /\ full_move_count = 2

\* the square one rank behind the target of en passant move m, toward the mover
BehindTarget(b, m) == IF b.side_to_move THEN m.to + 8 ELSE m.to - 8

\* r is the outcome of do_pseudolegal_move(b, m) for an en passant move m of
\* the list of b: a pawn of the side to move on its fifth rank goes to the en
\* passant square of b, behind which stands an opposing pawn, the piece removed
EnPassantSound(b, m, r) ==
    /\ b.square_list[m.frm].piecetype = (IF b.side_to_move THEN "p" ELSE "P")
    /\ m.frm \div 8 = (IF b.side_to_move THEN 3 ELSE 4)
    /\ m.to = b.en_passant_square
    /\ b.square_list[BehindTarget(b, m)].piecetype = (IF b.side_to_move THEN "P" ELSE "p")
    /\ r.err = NoErr
    /\ r.captured_piece = b.square_list[BehindTarget(b, m)]
    /\ r.board.square_list[BehindTarget(b, m)] = NoPiece

\* C29: on every board reached through read_fen, do_move, undo_move and
\* is_legal each en passant move of the cached list is made by a pawn of the
\* side to move on rank 5 (White) or rank 4 (Black), goes to the en passant
\* square of the board, and the square one rank behind the target holds an
\* opposing pawn, which is the piece the move removes
C29_EnPassantMovesSound ==
    (op.err = NoErr /\ op.name # "perft")
        => \A k \in 1..Len(pseudolegal_moves) :
              pseudolegal_moves[k].is_enpassant
                  => EnPassantSound(Board, pseudolegal_moves[k],
                                    do_pseudolegal_move(Board, pseudolegal_moves[k]))

\* the number of castles from frm to to in move list g
CastlesIn(g, frm, to) ==
    Cardinality({k \in 1..Len(g) : g[k].is_castle /\ g[k].frm = frm /\ g[k].to = to})

\* g is what the generator gives for board b: the short castle of the side to
\* move once if its short right is true and the f and g squares of its back
\* rank are empty, the long castle once if its long right is true and the b, c
\* and d squares are empty, and no castle otherwise
CastlesAsRights(b, g) ==
    LET base == IF b.side_to_move THEN 56 ELSE 0
        i0   == IF b.side_to_move THEN 2 ELSE 0
        sq   == b.square_list
    IN /\ CastlesIn(g, base + 4, base + 6)
            = (IF b.castling_rights[i0] /\ \A x \in {5, 6} : sq[base + x] = NoPiece
               THEN 1 ELSE 0)
       /\ CastlesIn(g, base + 4, base + 2)
            = (IF b.castling_rights[i0 + 1] /\ \A x \in {1, 2, 3} : sq[base + x] = NoPiece
               THEN 1 ELSE 0)
       /\ \A k \in 1..Len(g) :
             g[k].is_castle => g[k].frm = base + 4 /\ g[k].to \in {base + 6, base + 2}

\* C30: the generator emits a short castle for the side to move exactly when
\* that side's short right is true and f1, g1 (f8, g8) are empty, and a long
\* castle exactly when its long right is true and b1, c1, d1 (b8, c8, d8) are
\* empty; a piece of either colour on one of these squares suppresses it
C30_CastlesGenerated ==
    (op.name # "start" /\ op.err = NoErr)
        => CastlesAsRights(Board, generate_pseudolegal_moves(Board))

\* C30 witness: Black to move with both rights; the white bishop on g8
\* suppresses the short castle, the long castle is in the list
C30_Witness ==
    /\ op.name = "do_move" /\ op.ret /\ side_to_move
    /\ castling_rights[2] /\ castling_rights[3]
    /\ square_list[62].piecetype = "B" /\ square_list[61] = NoPiece
    /\ CastlesIn(pseudolegal_moves, 60, 62) = 0
    /\ CastlesIn(pseudolegal_moves, 60, 58) = 1

\* the moves of list g that are no en passant capture and go from frm to to
PlainMoves(g, frm, to) ==
    {k \in 1..Len(g) : g[k].frm = frm /\ g[k].to = to /\ ~g[k].is_enpassant}

\* g is what the generator gives for board b; its pawn moves promote where they
\* must: a push or capture onto the mover's last rank is there four times, once
\* per promotion kind of the mover's colour, any other once without promotion,
\* and no pawn on its seventh rank moves two squares
PawnMovesPromote(b, g) ==
    LET clr  == IF b.side_to_move THEN 1 ELSE 0
        last == 7 - 7 * clr
    IN \A k \in 1..Len(g) :
         is_type(g[k].moving_piece, {<<"P", "p">>[clr + 1]}) =>
           LET same == PlainMoves(g, g[k].frm, g[k].to)
           IN /\ g[k].is_enpassant => g[k].promotion = NoLetter
              /\ ~g[k].is_enpassant =>
                   IF g[k].to \div 8 = last
                   THEN /\ Cardinality(same) = 4
                        /\ {g[j].promotion : j \in same}
                             = {Proms(clr)[x] : x \in 1..4}
                   ELSE /\ Cardinality(same) = 1
                        /\ g[k].promotion = NoLetter
              /\ g[k].frm \div 8 = 6 - 5 * clr =>
                   g[k].to - g[k].frm \notin {16, -16}

\* C31: the generator expands a pawn push or capture into exactly four moves,
\* one per promotion kind Queen, Rook, Bishop, Knight of the mover's colour,
\* exactly when its destination is the mover's last rank, and emits a single
\* move without promotion otherwise; a pawn on its seventh rank gets no double
\* push
C31_PromotionsExpanded ==
    (op.name # "start" /\ op.err = NoErr)
        => PawnMovesPromote(Board, generate_pseudolegal_moves(Board))

\* C31 witness: after an accepted move the list, which is the generated one,
\* holds a promoting capture
C31_Witness ==
    /\ op.name = "do_move" /\ op.ret
    /\ \E k \in 1..Len(pseudolegal_moves) :
         /\ pseudolegal_moves[k].promotion # NoLetter
         /\ pseudolegal_moves[k].capture # NoLetter
    /\ pseudolegal_moves = generate_pseudolegal_moves(Board)

Abs(x) == IF x < 0 THEN -x ELSE x

\* the squares strictly between frm and to on a straight or diagonal line
Between(frm, to) ==
    LET df == (to % 8) - (frm % 8)
        dr == (to \div 8) - (frm \div 8)
        n  == IF Abs(df) > Abs(dr) THEN Abs(df) ELSE Abs(dr)
        sf == IF df > 0 THEN 1 ELSE IF df < 0 THEN -1 ELSE 0
        sr == IF dr > 0 THEN 1 ELSE IF dr < 0 THEN -1 ELSE 0
    IN {frm + (sf + 8 * sr) * k : k \in 1..(n - 1)}

\* the step from frm to to is one the piece of kind pt (upper case) can take
\* on the squares sq, files and ranks not wrapping
Geometric(sq, pt, frm, to) ==
    LET df == Abs((to % 8) - (frm % 8))
        dr == Abs((to \div 8) - (frm \div 8))
        straight == (df = 0) # (dr = 0)
        diagonal == df = dr /\ df > 0
        free     == \A x \in Between(frm, to) : sq[x] = NoPiece
    IN CASE pt = "N" -> {df, dr} = {1, 2}
         [] pt = "K" -> df <= 1 /\ dr <= 1 /\ df + dr > 0
         [] pt = "R" -> straight /\ free
         [] pt = "B" -> diagonal /\ free
         [] pt = "Q" -> (straight \/ diagonal) /\ free
         [] OTHER    -> FALSE

\* every move of list g for board b that is no pawn move and no castle goes to
\* a square on the board the piece can reach, not one of the mover's own, and
\* names as captured the piece standing there, if any
PieceMovesSound(b, g) ==
    LET sq == b.square_list
    IN \A k \in 1..Len(g) :
         (~g[k].is_castle /\ Upper(g[k].moving_piece.piecetype) # "P") =>
            /\ g[k].to \in 0..63
            /\ g[k].frm = g[k].moving_piece.position
            /\ Color(g[k].moving_piece) = b.side_to_move
            /\ Geometric(sq, Upper(g[k].moving_piece.piecetype), g[k].frm, g[k].to)
            /\ sq[g[k].to] # NoPiece => Color(sq[g[k].to]) # b.side_to_move
            /\ g[k].capture = sq[g[k].to].piecetype
            /\ g[k].promotion = NoLetter /\ ~g[k].is_enpassant

\* C32: every move the generator emits for a knight, king (castles apart),
\* rook, bishop or queen goes to a square on the board that the piece reaches
\* without file or rank wrap-around (knight: differences {1,2}; king: both at
\* most 1; sliders: along a free straight or diagonal ray), never to a square
\* of the mover's own piece, and its capture is the kind of the opposing piece
\* on the destination exactly when the destination is occupied
C32_PieceMovesGeometric ==
    (op.name # "start" /\ op.err = NoErr)
        => PieceMovesSound(Board, generate_pseudolegal_moves(Board))

\* C32 witness: after an accepted move the list, which is the generated one,
\* holds a capture by a knight, king, rook, bishop or queen, and the king of the
\* side to move stands next to a piece of its own colour
C32_Witness ==
    /\ op.name = "do_move" /\ op.ret
    /\ pseudolegal_moves = generate_pseudolegal_moves(Board)
    /\ \E k \in 1..Len(pseudolegal_moves) :
         /\ pseudolegal_moves[k].capture # NoLetter
         /\ Upper(pseudolegal_moves[k].moving_piece.piecetype) # "P"
    /\ \E k \in 1..Len(piece_list) :
         /\ piece_list[k].piecetype = (IF side_to_move THEN "k" ELSE "K")
         /\ \E t \in 0..63 :
              /\ Geometric(square_list, "K", piece_list[k].position, t)
              /\ square_list[t] # NoPiece
              /\ Color(square_list[t]) = side_to_move

\* C32 witness: a queen of the side to move is on the board
C32_WitnessQueen ==
    /\ op.name = "do_move" /\ op.ret
    /\ \E k \in 1..Len(pseudolegal_moves) :
         Upper(pseudolegal_moves[k].moving_piece.piecetype) = "Q"

\* C33: perft(d) leaves the position as it found it: when it returns, the 64
\* squares, piece counts, side to move, castling rights, en passant square,
\* halfmove clock, fullmove number and the length of the move history are the
\* same as before the call, for every depth d
C33_PerftLeavesPosition ==
    (op.name = "perft" /\ op.err = NoErr)
        => /\ Position(Board) = Position(snap)
           /\ Len(move_sequence) = Len(snap.move_sequence)
           /\ Len(fen_sequence) = Len(snap.fen_sequence)

\* what do_move(m, update_movelist=False) gives on board b is truthy exactly
\* when the move was made: one more entry in the move history
TruthyIffMade(b, r) ==
    Truthy(r.ret) <=> Len(r.board.move_sequence) = Len(b.move_sequence) + 1

\* C34: do_move(m, update_movelist=False) returns a truthy value exactly when
\* m was accepted and applied, so that perft counts a move if and only if the
\* board was advanced; a legal move after which the opponent has no
\* pseudo-legal reply is counted by perft and taken back
C34_TruthyIffApplied ==
    /\ op.err = NoErr =>
         \A k \in 1..Len(pseudolegal_moves) :
            LET r == do_move(Board, pseudolegal_moves[k], FALSE)
            IN r.err = NoErr => TruthyIffMade(Board, r)
    /\ (op.name = "perft" /\ op.n >= 1 /\ ~op.split) =>
         /\ op.err = NoErr
         /\ Len(move_sequence) = Len(snap.move_sequence)

\* the corner a castle takes its rook from, and the square the rook goes to
CastleCorner(mv) == IF mv.to - mv.frm = 2 THEN mv.to + 1 ELSE mv.to - 2

CastleRookSquare(mv) == IF mv.to - mv.frm = 2 THEN mv.to - 1 ELSE mv.to + 1

\* the castle of list g that takes its rook from corner c
CastleToward(g, c) ==
    \E k \in 1..Len(g) : g[k].is_castle /\ CastleCorner(g[k]) = c

\* C35: whenever do_move applies a castling move, the king moved is on e1/e8
\* and the piece taken from the corner (h1/a1/h8/a8) to the square next to the
\* king is a rook of the mover's colour; right after the opponent captures a
\* rook on its original corner, the cached list holds no castle toward that
\* corner
C35_CastleMovesKingAndRook ==
    /\ (op.name = "do_move" /\ op.ret /\ op.mv.is_castle) =>
         LET king == IF snap.side_to_move THEN "k" ELSE "K"
             rook == IF snap.side_to_move THEN "r" ELSE "R"
         IN /\ op.mv.frm = (IF snap.side_to_move THEN 60 ELSE 4)
            /\ snap.square_list[op.mv.frm].piecetype = king
            /\ square_list[op.mv.to].piecetype = king
            /\ CastleCorner(op.mv) \in {0, 7, 56, 63}
            /\ snap.square_list[CastleCorner(op.mv)].piecetype = rook
            /\ square_list[CastleRookSquare(op.mv)].piecetype = rook
    /\ (op.name = "do_move" /\ op.ret /\ op.mv.to \in {0, 7, 56, 63}
          /\ op.mv.capture = (IF side_to_move THEN "r" ELSE "R")
          /\ op.mv.to \div 8 = (IF side_to_move THEN 7 ELSE 0)) =>
         ~CastleToward(pseudolegal_moves, op.mv.to)

\* piece_list and square_list of board b describe the same pieces: each piece
\* of the list stands on the square it names, each occupied square holds a
\* piece that is in the list exactly once, and the list has no other entry
ListsAgree(b) ==
    /\ \A k \in 1..Len(b.piece_list) :
         /\ b.piece_list[k].position \in 0..63
         /\ b.square_list[b.piece_list[k].position] = b.piece_list[k]
    /\ \A s \in 0..63 :
         b.square_list[s] # NoPiece =>
           /\ b.square_list[s].position = s
           /\ Cardinality({k \in 1..Len(b.piece_list) :
                              b.piece_list[k] = b.square_list[s]}) = 1
    /\ Len(b.piece_list) = Cardinality({s \in 0..63 : b.square_list[s] # NoPiece})

\* C36: after read_fen, after every do_move, accepted or rejected, and after
\* undo_move, piece_list and square_list describe the same pieces: every piece
\* of piece_list has a position p with square_list[p] that piece, every
\* occupied square's piece is in piece_list exactly once, and no captured or
\* promoted-away piece remains in piece_list
C36_PieceListMatchesSquares ==
    op.err = NoErr => ListsAgree(Board)

\* C36 witness: a capture that promotes was made and taken back inside a
\* rejected do_move
C36_Witness ==
    /\ op.name = "do_move" /\ ~op.ret /\ op.err = NoErr
    /\ InList(op.mv, snap.pseudolegal_moves)
    /\ op.mv.capture # NoLetter /\ op.mv.promotion # NoLetter

\* C36 witness: a capture or promotion was made by an accepted do_move and
\* taken back by undo_move, which leaves piece_list in another order
C36_WitnessUndone ==
    /\ op.name = "undo_move" /\ op.prev = "do_move" /\ op.prevret
    /\ Len(piece_list) = Len(snap.piece_list)
    /\ piece_list # snap.piece_list

====
